---- MODULE Spec2Model ----
(***************************************************************************)
(* Frame simulation core of the Pong variant in                            *)
(* src/src/components/PongGame.tsx: the match state machine, the ball and  *)
(* paddle physics, the destructible CPU paddle, bullets and items, and the *)
(* key/menu handlers and animation-frame scheduling that drive them.       *)
(*                                                                         *)
(* Numbers.  The program computes with JavaScript doubles.  Lengths and    *)
(* velocities are modelled in fixed point with PX units per pixel, the     *)
(* speed multiplier and Math.random() in thousandths; a product of two     *)
(* fixed-point values is floored to the unit (MulFix).                     *)
(*                                                                         *)
(* React state.  The refs (gameStateRef, bulletsRef, ...) are variables    *)
(* that every callback reads and writes directly.  The useState values     *)
(* are the values of the latest render: a handler's set calls take effect  *)
(* as one step with the handler, and the key and click handlers, which     *)
(* are created anew by every render, read these values.  updateGame is     *)
(* created once (useCallback with no dependencies) and keeps the values    *)
(* of the first render (ClosureRemainingBullets).                          *)
(***************************************************************************)
EXTENDS Integers, Sequences, FiniteSets, TLC

\* ------------------------------------------------------------------------
\* Program constants (PongGame.tsx lines 26-34) and fixed-point unit
\* ------------------------------------------------------------------------
PX == 1000

CANVAS_WIDTH == 800
CANVAS_HEIGHT == 600
PADDLE_WIDTH == 10
PADDLE_HEIGHT == 100
BALL_SIZE == 10
BULLET_SIZE == 15
BASE_PADDLE_SPEED == 8
BASE_BALL_SPEED == 5
BULLET_SPEED == 25

\* animState.blinkTimer += 16 (line 240); toggle at 200 (244); end at 2000 (250)
BlinkStepMs == 16
BlinkCycleMs == 200
BlinkTotalMs == 2000
\* shooting cooldown (line 822), item life span (456), item box (465), ammo cap (475)
ShotCooldownMs == 300
ItemLifeMs == 10000
ItemSize == 20
MaxBullets == 8
\* const [remainingBullets, ...] = useState(8), cpuPaddleHealthRef = useRef(5), health 100 / step 10
InitialBullets == 8
InitialPaddleHealth == 5
InitialHealth == 100
HealthStep == 10
\* nominal duration of one display frame in ms (the 60fps assumption of line 240)
FrameMs == 16

\* ------------------------------------------------------------------------
\* Bounds of the exploration
\* ------------------------------------------------------------------------
\* animation frames executed in one behaviour
MaxFrames == 4
\* key and mouse events, and pauses of the wall clock, in one behaviour
MaxEvents == 2
\* animation frames executed in a match played to its end
MaxPlayFrames == 700

\* ------------------------------------------------------------------------
\* Arithmetic helpers
\* ------------------------------------------------------------------------
Px(n) == n * PX

\* product of a fixed-point value and a value in thousandths
MulFix(a, m) == (a * m) \div 1000

Min2(a, b) == IF a < b THEN a ELSE b
Max2(a, b) == IF a > b THEN a ELSE b
Abs(a) == IF a < 0 THEN 0 - a ELSE a

\* Math.random() in thousandths: a value of [0, 1)
RandomValues == {0, 500, 999}

\* Array.prototype.splice(i, 1) on a 1-based sequence
Splice(s, i) == SubSeq(s, 1, i - 1) \o SubSeq(s, i + 1, Len(s))

\* ------------------------------------------------------------------------
\* The destructible CPU paddle
\* ------------------------------------------------------------------------
\* initializeCpuPaddle: PADDLE_WIDTH columns of PADDLE_HEIGHT cells, all 1.0
initializeCpuPaddle ==
    [x \in 0..(PADDLE_WIDTH - 1) |-> [y \in 0..(PADDLE_HEIGHT - 1) |-> 1]]

\* "Ensure pixels are initialized": if (cpuPixels.length === 0) initialize
EnsurePixels(p) == IF DOMAIN p = {} THEN initializeCpuPaddle ELSE p

\* ErodeEdges that forgets to advance the bottom edge counter
ErodeEdges_TopOnly(g) ==
    LET pixelsPerHit == PADDLE_HEIGHT \div 5
        pixelsFromEachEdge == pixelsPerHit \div 2
        half == PADDLE_HEIGHT \div 2
        topStart == g.edges.topPixelsRemoved
        topEnd == Min2(topStart + pixelsFromEachEdge, half)
        bottomStart == Max2(PADDLE_HEIGHT - g.edges.bottomPixelsRemoved - pixelsFromEachEdge, half)
        bottomEnd == PADDLE_HEIGHT - g.edges.bottomPixelsRemoved
    IN  [pixels |->
           [col \in DOMAIN g.pixels |->
              [y \in DOMAIN g.pixels[col] |->
                 IF (topStart <= y /\ y < topEnd) \/ (bottomStart <= y /\ y < bottomEnd)
                 THEN 0 ELSE g.pixels[col][y]]],
         health |-> g.health - 1,
         edges |->
           [topPixelsRemoved |-> Min2(g.edges.topPixelsRemoved + pixelsFromEachEdge, half),
            bottomPixelsRemoved |-> g.edges.bottomPixelsRemoved]]

\* ErodeEdges that erodes a freshly initialized grid instead of the current one
ErodeEdges_Rebuild(g) ==
    LET pixelsPerHit == PADDLE_HEIGHT \div 5
        pixelsFromEachEdge == pixelsPerHit \div 2
        half == PADDLE_HEIGHT \div 2
        topStart == g.edges.topPixelsRemoved
        topEnd == Min2(topStart + pixelsFromEachEdge, half)
        bottomStart == Max2(PADDLE_HEIGHT - g.edges.bottomPixelsRemoved - pixelsFromEachEdge, half)
        bottomEnd == PADDLE_HEIGHT - g.edges.bottomPixelsRemoved
    IN  [pixels |->
           [col \in DOMAIN g.pixels |->
              [y \in DOMAIN g.pixels[col] |->
                 IF (topStart <= y /\ y < topEnd) \/ (bottomStart <= y /\ y < bottomEnd)
                 THEN 0 ELSE initializeCpuPaddle[col][y]]],
         health |-> g.health - 1,
         edges |->
           [topPixelsRemoved |-> Min2(g.edges.topPixelsRemoved + pixelsFromEachEdge, half),
            bottomPixelsRemoved |-> Min2(g.edges.bottomPixelsRemoved + pixelsFromEachEdge, half)]]

\* ErodeEdges whose column loop stops one column early
ErodeEdges_SkipColumn(g) ==
    LET pixelsPerHit == PADDLE_HEIGHT \div 5
        pixelsFromEachEdge == pixelsPerHit \div 2
        half == PADDLE_HEIGHT \div 2
        topStart == g.edges.topPixelsRemoved
        topEnd == Min2(topStart + pixelsFromEachEdge, half)
        bottomStart == Max2(PADDLE_HEIGHT - g.edges.bottomPixelsRemoved - pixelsFromEachEdge, half)
        bottomEnd == PADDLE_HEIGHT - g.edges.bottomPixelsRemoved
    IN  [pixels |->
           [col \in DOMAIN g.pixels |->
              [y \in DOMAIN g.pixels[col] |->
                 IF /\ col < PADDLE_WIDTH - 1
                    /\ (topStart <= y /\ y < topEnd) \/ (bottomStart <= y /\ y < bottomEnd)
                 THEN 0 ELSE g.pixels[col][y]]],
         health |-> g.health - 1,
         edges |->
           [topPixelsRemoved |-> Min2(g.edges.topPixelsRemoved + pixelsFromEachEdge, half),
            bottomPixelsRemoved |-> Min2(g.edges.bottomPixelsRemoved + pixelsFromEachEdge, half)]]

\* the edge erosion of one confirmed hit (lines 374-407), on the triple
\* [pixels, health, edges]
ErodeEdges(g) ==
    LET pixelsPerHit == PADDLE_HEIGHT \div 5
        pixelsFromEachEdge == pixelsPerHit \div 2
        half == PADDLE_HEIGHT \div 2
        topStart == g.edges.topPixelsRemoved
        topEnd == Min2(topStart + pixelsFromEachEdge, half)
        bottomStart == Max2(PADDLE_HEIGHT - g.edges.bottomPixelsRemoved - pixelsFromEachEdge, half)
        bottomEnd == PADDLE_HEIGHT - g.edges.bottomPixelsRemoved
    IN  [pixels |->
           [col \in DOMAIN g.pixels |->
              [y \in DOMAIN g.pixels[col] |->
                 IF (topStart <= y /\ y < topEnd) \/ (bottomStart <= y /\ y < bottomEnd)
                 THEN 0 ELSE g.pixels[col][y]]],
         health |-> g.health - 1,
         edges |->
           [topPixelsRemoved |-> Min2(g.edges.topPixelsRemoved + pixelsFromEachEdge, half),
            bottomPixelsRemoved |-> Min2(g.edges.bottomPixelsRemoved + pixelsFromEachEdge, half)]]

\* cpuPixels[x] && cpuPixels[x][y] !== undefined && cpuPixels[x][y] > 0
IsSolid(pixels, x, y) ==
    /\ x \in DOMAIN pixels
    /\ y \in DOMAIN pixels[x]
    /\ pixels[x][y] > 0

\* ------------------------------------------------------------------------
\* updateGame, stage 1: bullets against the CPU paddle (lines 270-427)
\* ------------------------------------------------------------------------
\* the bullet's box overlaps the paddle's bounding box (lines 300-301)
BulletInPaddleBox(b, rightPaddleY) ==
    LET paddleX == Px(CANVAS_WIDTH - PADDLE_WIDTH)
    IN  /\ b.x + Px(BULLET_SIZE) > paddleX
        /\ b.x < paddleX + Px(PADDLE_WIDTH)
        /\ b.y + Px(BULLET_SIZE) > rightPaddleY
        /\ b.y < rightPaddleY + Px(PADDLE_HEIGHT)

\* Math.floor(bulletCenterX - paddleX) (lines 312-313)
PrimaryColumn(b) ==
    LET paddleX == Px(CANVAS_WIDTH - PADDLE_WIDTH)
        bulletCenterX == b.x + Px(BULLET_SIZE) \div 2
    IN  (bulletCenterX - paddleX) \div PX

\* the bullet's box overlaps cell [col, py] of the paddle (lines 332-346)
BulletOverlapsCell(b, rightPaddleY, col, py) ==
    LET pixelLeft == Px(CANVAS_WIDTH - PADDLE_WIDTH) + Px(col)
        pixelTop == rightPaddleY + Px(py)
    IN  /\ b.x < pixelLeft + PX
        /\ b.x + Px(BULLET_SIZE) > pixelLeft
        /\ b.y < pixelTop + PX
        /\ b.y + Px(BULLET_SIZE) > pixelTop

\* FoundOverlap that does not look at the value of the overlapped cell
FoundOverlap_AnyCell(b, rightPaddleY, pixels, health) ==
    LET primaryColumn == PrimaryColumn(b)
    IN  /\ primaryColumn >= 0
        /\ primaryColumn < PADDLE_WIDTH
        /\ health > 0
        /\ \E py \in 0..(PADDLE_HEIGHT - 1) :
              BulletOverlapsCell(b, rightPaddleY, primaryColumn, py)

\* the scan of the primary column for a solid overlapped cell (lines 322-358)
FoundOverlap(b, rightPaddleY, pixels, health) ==
    LET primaryColumn == PrimaryColumn(b)
    IN  /\ primaryColumn >= 0
        /\ primaryColumn < PADDLE_WIDTH
        /\ health > 0
        /\ \E py \in 0..(PADDLE_HEIGHT - 1) :
              /\ BulletOverlapsCell(b, rightPaddleY, primaryColumn, py)
              /\ IsSolid(pixels, primaryColumn, py)

\* bullet left the extended canvas (line 289)
BulletOffScreen(b) ==
    \/ b.x > Px(CANVAS_WIDTH + 20)
    \/ b.x < 0
    \/ b.y < 0
    \/ b.y > Px(CANVAS_HEIGHT)

\* for (let i = bullets.length - 1; i >= 0; i--) { ... }  (1-based index i)
RECURSIVE BulletLoop(_, _)
BulletLoop(w, i) ==
    IF i = 0 THEN w
    ELSE
      LET bullet == [w.bullets[i] EXCEPT !.x = @ + w.bullets[i].vx,
                                         !.y = @ + w.bullets[i].vy]
          moved == [w EXCEPT !.bullets[i] = bullet]
      IN  IF BulletOffScreen(bullet)
          THEN BulletLoop([w EXCEPT !.bullets = Splice(w.bullets, i)], i - 1)
          ELSE IF /\ BulletInPaddleBox(bullet, w.gs.rightPaddleY)
                  /\ FoundOverlap(bullet, w.gs.rightPaddleY, w.pixels, w.health)
          THEN LET g == ErodeEdges([pixels |-> w.pixels, health |-> w.health,
                                    edges |-> w.edges])
               IN  BulletLoop([w EXCEPT !.bullets = Splice(w.bullets, i),
                                         !.pixels = g.pixels,
                                         !.health = g.health,
                                         !.edges = g.edges,
                                         !.hits = @ + 1,
                                         !.timeouts = Append(@, [fn |-> "paddleDamaged",
                                                                 due |-> w.now + 100]),
                                         !.sounds = @ \cup {"bulletImpact"}], i - 1)
          ELSE BulletLoop(moved, i - 1)

\* a bullet stage that lowers the hit counter once per pass, however many
\* bullets the pass confirms as hits
UpdateBullets_CountOnce(w) ==
    LET r == BulletLoop([w EXCEPT !.pixels = EnsurePixels(w.pixels)], Len(w.bullets))
    IN  IF r.hits > w.hits THEN [r EXCEPT !.health = w.health - 1] ELSE r

UpdateBullets(w) ==
    BulletLoop([w EXCEPT !.pixels = EnsurePixels(w.pixels)], Len(w.bullets))

\* ------------------------------------------------------------------------
\* updateGame, stage 2: items (lines 429-486)
\* ------------------------------------------------------------------------
\* the value of remainingBullets that updateGame reads: updateGame is created
\* by useCallback with an empty dependency list (lines 233, 705), so it is the
\* function of the first render and closes over that render's state
ClosureRemainingBullets == InitialBullets

\* spawn a new item when the randomized interval has elapsed (lines 433-452)
SpawnItem(w, rInterval, rY) ==
    LET spawnInterval == 12000 + MulFix(3000, rInterval)
        safeY == Px(50) + MulFix(Px(CANVAS_HEIGHT - 100), rY)
    IN  IF w.now - w.lastItemSpawn > spawnInterval
        THEN [w EXCEPT !.items = Append(@, [x |-> 0, y |-> safeY, spawnTime |-> w.now]),
                       !.lastItemSpawn = w.now,
                       !.sounds = @ \cup {"itemSpawned"}]
        ELSE w

\* an expiry with a lifetime above the shortest spawn interval
ExpireItems_LongLife(w) ==
    [w EXCEPT !.items = SelectSeq(@, LAMBDA it : ~(w.now - it.spawnTime > 13000))]

\* remove expired items (lines 454-460)
ExpireItems(w) ==
    [w EXCEPT !.items = SelectSeq(@, LAMBDA it : ~(w.now - it.spawnTime > ItemLifeMs))]

\* the item's box touches the left paddle (lines 468-471)
ItemHitsPaddle(item, leftPaddleY) ==
    /\ item.x < Px(PADDLE_WIDTH + ItemSize)
    /\ item.x + Px(ItemSize) > 0
    /\ item.y < leftPaddleY + Px(PADDLE_HEIGHT)
    /\ item.y + Px(ItemSize) > leftPaddleY

\* for (let i = items.length - 1; i >= 0; i--) collect (lines 462-486)
RECURSIVE CollectLoop(_, _)
CollectLoop(w, i) ==
    IF i = 0 THEN w
    ELSE IF ItemHitsPaddle(w.items[i], w.gs.leftPaddleY)
         THEN CollectLoop([w EXCEPT !.remainingBullets = Min2(ClosureRemainingBullets + 2, MaxBullets),
                                    !.items = Splice(w.items, i),
                                    !.sounds = @ \cup {"itemCollected"}], i - 1)
         ELSE CollectLoop(w, i - 1)

\* UpdateItems that looks for collected items before it removes the expired
UpdateItems_CollectFirst(w, rInterval, rY) ==
    LET spawned == SpawnItem(w, rInterval, rY)
        collected == CollectLoop(spawned, Len(spawned.items))
    IN  ExpireItems(collected)

UpdateItems(w, rInterval, rY) ==
    LET spawned == SpawnItem(w, rInterval, rY)
        alive == ExpireItems(spawned)
    IN  CollectLoop(alive, Len(alive.items))

\* ------------------------------------------------------------------------
\* updateGame, stage 3: paddles (lines 488-535)
\* ------------------------------------------------------------------------
MoveLeftPaddle(w) ==
    LET up == IF w.keys.w /\ w.gs.leftPaddleY > 0
              THEN w.gs.leftPaddleY - Px(BASE_PADDLE_SPEED) ELSE w.gs.leftPaddleY
        down == IF w.keys.s /\ up < Px(CANVAS_HEIGHT - PADDLE_HEIGHT)
                THEN up + Px(BASE_PADDLE_SPEED) ELSE up
    IN  [w EXCEPT !.gs.leftPaddleY = down]

\* BASE_PADDLE_SPEED * 0.85
AiPaddleSpeed == (Px(BASE_PADDLE_SPEED) * 85) \div 100

\* a target recomputed on every frame
UpdateAiTarget_EveryFrame(w, rAi) ==
    LET frameCounter == w.ai.frameCounter + 1
        ballCenterY == w.gs.ballY + Px(BALL_SIZE) \div 2
        targetOffset == MulFix(Px(30), rAi) - Px(15)
    IN  [w EXCEPT !.ai.frameCounter = frameCounter,
                  !.ai.targetY = IF w.gs.ballVelX > 0
                                 THEN ballCenterY + targetOffset ELSE @,
                  !.ai.lastBallDirection = w.gs.ballVelX]

\* AI target update (lines 499-511)
UpdateAiTarget(w, rAi) ==
    LET frameCounter == w.ai.frameCounter + 1
        ballCenterY == w.gs.ballY + Px(BALL_SIZE) \div 2
        targetOffset == MulFix(Px(30), rAi) - Px(15)
    IN  [w EXCEPT !.ai.frameCounter = frameCounter,
                  !.ai.targetY = IF w.gs.ballVelX > 0 /\ frameCounter % 4 = 0
                                 THEN ballCenterY + targetOffset ELSE @,
                  !.ai.lastBallDirection = w.gs.ballVelX]

\* the position the AI steers toward (lines 514-522)
AiTargetY(w) ==
    IF w.gs.ballVelX > 0 THEN w.ai.targetY
    ELSE Px(CANVAS_HEIGHT) \div 2 - Px(PADDLE_HEIGHT) \div 2

\* AI movement with dead zone (lines 524-535)
MoveRightPaddle(w) ==
    LET paddleCenterY == w.gs.rightPaddleY + Px(PADDLE_HEIGHT) \div 2
        diff == AiTargetY(w) - paddleCenterY
        down == IF Abs(diff) > Px(5) /\ diff > 0
                   /\ w.gs.rightPaddleY < Px(CANVAS_HEIGHT - PADDLE_HEIGHT)
                THEN w.gs.rightPaddleY + AiPaddleSpeed ELSE w.gs.rightPaddleY
        up == IF Abs(diff) > Px(5) /\ diff < 0 /\ down > 0
              THEN down - AiPaddleSpeed ELSE down
    IN  [w EXCEPT !.gs.rightPaddleY = up]

\* ------------------------------------------------------------------------
\* updateGame, stage 4: ball (lines 537-642)
\* ------------------------------------------------------------------------
\* (hitPos - 0.5) * 8 with hitPos = (ballY - paddleY) / PADDLE_HEIGHT
SpinVelY(ballY, paddleY) == ((ballY - paddleY) * 8) \div PADDLE_HEIGHT - Px(4)

\* currentSpeedMultiplier *= 1.1
SpeedUp(m) == (m * 11) \div 10

\* a ball that only the bottom wall reflects
MoveBall_NoTopWall(w) ==
    LET ballX == w.gs.ballX + MulFix(w.gs.ballVelX, w.gs.currentSpeedMultiplier)
        ballY == w.gs.ballY + MulFix(w.gs.ballVelY, w.gs.currentSpeedMultiplier)
        bounce == ballY >= Px(CANVAS_HEIGHT - BALL_SIZE)
    IN  [w EXCEPT !.gs.prevBallX = w.gs.ballX,
                  !.gs.ballX = ballX,
                  !.gs.ballY = ballY,
                  !.gs.ballVelY = IF bounce THEN 0 - @ ELSE @,
                  !.sounds = IF bounce THEN @ \cup {"wallBounce"} ELSE @]

\* position integration and wall bounce (lines 537-548)
MoveBall(w) ==
    LET ballX == w.gs.ballX + MulFix(w.gs.ballVelX, w.gs.currentSpeedMultiplier)
        ballY == w.gs.ballY + MulFix(w.gs.ballVelY, w.gs.currentSpeedMultiplier)
        bounce == ballY <= 0 \/ ballY >= Px(CANVAS_HEIGHT - BALL_SIZE)
    IN  [w EXCEPT !.gs.prevBallX = w.gs.ballX,
                  !.gs.ballX = ballX,
                  !.gs.ballY = ballY,
                  !.gs.ballVelY = IF bounce THEN 0 - @ ELSE @,
                  !.sounds = IF bounce THEN @ \cup {"wallBounce"} ELSE @]

\* swept test against the left paddle (lines 551-553)
LeftPaddleGate(gs) ==
    /\ gs.prevBallX > Px(PADDLE_WIDTH)
    /\ gs.ballX <= Px(PADDLE_WIDTH)
    /\ gs.ballY >= gs.leftPaddleY
    /\ gs.ballY <= gs.leftPaddleY + Px(PADDLE_HEIGHT)

\* LeftPaddleCollision that leaves the ball inside the paddle
LeftPaddleCollision_NoClamp(w) ==
    IF LeftPaddleGate(w.gs)
    THEN [w EXCEPT !.gs.ballVelX = 0 - @,
                   !.gs.ballVelY = SpinVelY(w.gs.ballY, w.gs.leftPaddleY),
                   !.gs.currentSpeedMultiplier = SpeedUp(@),
                   !.sounds = @ \cup {"paddleHit"}]
    ELSE w

LeftPaddleCollision(w) ==
    IF LeftPaddleGate(w.gs)
    THEN [w EXCEPT !.gs.ballVelX = 0 - @,
                   !.gs.ballVelY = SpinVelY(w.gs.ballY, w.gs.leftPaddleY),
                   !.gs.ballX = Px(PADDLE_WIDTH + 1),
                   !.gs.currentSpeedMultiplier = SpeedUp(@),
                   !.sounds = @ \cup {"paddleHit"}]
    ELSE w

\* bounding-box gate of the right paddle (lines 568-571)
RightPaddleGate(gs) ==
    LET rightPaddleLeft == Px(CANVAS_WIDTH - PADDLE_WIDTH)
    IN  /\ gs.prevBallX < rightPaddleLeft
        /\ gs.ballX + Px(BALL_SIZE) > rightPaddleLeft
        /\ gs.ballY + Px(BALL_SIZE) > gs.rightPaddleY
        /\ gs.ballY < gs.rightPaddleY + Px(PADDLE_HEIGHT)

\* the ball's box overlaps cell [x, y] of the paddle (lines 594-609)
BallOverlapsCell(gs, x, y) ==
    LET pixelLeft == Px(CANVAS_WIDTH - PADDLE_WIDTH) + Px(x)
        pixelTop == gs.rightPaddleY + Px(y)
    IN  /\ gs.ballX < pixelLeft + PX
        /\ gs.ballX + Px(BALL_SIZE) > pixelLeft
        /\ gs.ballY < pixelTop + PX
        /\ gs.ballY + Px(BALL_SIZE) > pixelTop

\* HitSolidPixel that accepts any overlapped cell, solid or destroyed
HitSolidPixel_BoxOnly(gs, pixels) ==
    \E x \in 0..(PADDLE_WIDTH - 1) : \E y \in 0..(PADDLE_HEIGHT - 1) :
        BallOverlapsCell(gs, x, y)

\* the pixel scan (lines 592-625)
HitSolidPixel(gs, pixels) ==
    \E x \in 0..(PADDLE_WIDTH - 1) : \E y \in 0..(PADDLE_HEIGHT - 1) :
        BallOverlapsCell(gs, x, y) /\ IsSolid(pixels, x, y)

\* a right paddle that returns the ball from its bounding box, whatever is
\* left of the grid
RightPaddleCollision_BoundingBox(w) ==
    IF /\ RightPaddleGate(w.gs)
       /\ \E x \in 0..(PADDLE_WIDTH - 1) : \E y \in 0..(PADDLE_HEIGHT - 1) :
             BallOverlapsCell(w.gs, x, y)
    THEN [w EXCEPT !.gs.ballVelX = 0 - @,
                   !.gs.ballVelY = SpinVelY(w.gs.ballY, w.gs.rightPaddleY),
                   !.gs.ballX = Px(CANVAS_WIDTH - PADDLE_WIDTH - BALL_SIZE - 1),
                   !.gs.currentSpeedMultiplier = SpeedUp(@),
                   !.sounds = @ \cup {"paddleHit"}]
    ELSE w

RightPaddleCollision(w) ==
    IF RightPaddleGate(w.gs) /\ HitSolidPixel(w.gs, w.pixels)
    THEN [w EXCEPT !.gs.ballVelX = 0 - @,
                   !.gs.ballVelY = SpinVelY(w.gs.ballY, w.gs.rightPaddleY),
                   !.gs.ballX = Px(CANVAS_WIDTH - PADDLE_WIDTH - BALL_SIZE - 1),
                   !.gs.currentSpeedMultiplier = SpeedUp(@),
                   !.sounds = @ \cup {"paddleHit"}]
    ELSE w

\* ------------------------------------------------------------------------
\* updateGame, stage 5: ball out of bounds (lines 644-704)
\* ------------------------------------------------------------------------
\* StartBlink that leaves the ball its velocity
StartBlink_BallFlies(w, side) ==
    [w EXCEPT !.anim = [blinkingPaddle |-> side, blinkTimer |-> 0,
                        blinkCycleTimer |-> 0, isBlinkVisible |-> TRUE]]

\* start the blink pause for the paddle that missed and stop the ball
StartBlink(w, side) ==
    [w EXCEPT !.anim = [blinkingPaddle |-> side, blinkTimer |-> 0,
                        blinkCycleTimer |-> 0, isBlinkVisible |-> TRUE],
              !.gs.ballVelX = 0,
              !.gs.ballVelY = 0]

\* LeftMiss with the health step counted twice
LeftMiss_DoubleStep(w) ==
    IF w.gs.ballX < 0
    THEN LET lost == [w EXCEPT !.gs.leftHealth = @ - 2 * HealthStep,
                               !.leftHealth = w.gs.leftHealth - 2 * HealthStep,
                               !.gs.currentSpeedMultiplier = 1000,
                               !.sounds = @ \cup {"healthLoss"}]
         IN  IF lost.gs.leftHealth <= 0
             THEN [w |-> [lost EXCEPT !.gs.isRunning = FALSE,
                                      !.isRunning = FALSE,
                                      !.gameOver = TRUE,
                                      !.winner = "CPU",
                                      !.sounds = @ \cup {"gameOver"}],
                   returned |-> TRUE]
             ELSE [w |-> StartBlink(lost, "left"), returned |-> FALSE]
    ELSE [w |-> w, returned |-> FALSE]

\* LeftMiss that leaves the loop flag of gameStateRef set at game over
LeftMiss_StillRunning(w) ==
    IF w.gs.ballX < 0
    THEN LET lost == [w EXCEPT !.gs.leftHealth = @ - HealthStep,
                               !.leftHealth = w.gs.leftHealth - HealthStep,
                               !.gs.currentSpeedMultiplier = 1000,
                               !.sounds = @ \cup {"healthLoss"}]
         IN  IF lost.gs.leftHealth <= 0
             THEN [w |-> [lost EXCEPT !.isRunning = FALSE,
                                      !.gameOver = TRUE,
                                      !.winner = "CPU",
                                      !.sounds = @ \cup {"gameOver"}],
                   returned |-> TRUE]
             ELSE [w |-> StartBlink(lost, "left"), returned |-> FALSE]
    ELSE [w |-> w, returned |-> FALSE]

\* LeftMiss without the reset of the speed multiplier
LeftMiss_KeepSpeed(w) ==
    IF w.gs.ballX < 0
    THEN LET lost == [w EXCEPT !.gs.leftHealth = @ - HealthStep,
                               !.leftHealth = w.gs.leftHealth - HealthStep,
                               !.sounds = @ \cup {"healthLoss"}]
         IN  IF lost.gs.leftHealth <= 0
             THEN [w |-> [lost EXCEPT !.gs.isRunning = FALSE,
                                      !.isRunning = FALSE,
                                      !.gameOver = TRUE,
                                      !.winner = "CPU",
                                      !.sounds = @ \cup {"gameOver"}],
                   returned |-> TRUE]
             ELSE [w |-> StartBlink(lost, "left"), returned |-> FALSE]
    ELSE [w |-> w, returned |-> FALSE]

\* if (state.ballX < 0) { ... }; the result also says whether updateGame returned
LeftMiss(w) ==
    IF w.gs.ballX < 0
    THEN LET lost == [w EXCEPT !.gs.leftHealth = @ - HealthStep,
                               !.leftHealth = w.gs.leftHealth - HealthStep,
                               !.gs.currentSpeedMultiplier = 1000,
                               !.sounds = @ \cup {"healthLoss"}]
         IN  IF lost.gs.leftHealth <= 0
             THEN [w |-> [lost EXCEPT !.gs.isRunning = FALSE,
                                      !.isRunning = FALSE,
                                      !.gameOver = TRUE,
                                      !.winner = "CPU",
                                      !.sounds = @ \cup {"gameOver"}],
                   returned |-> TRUE]
             ELSE [w |-> StartBlink(lost, "left"), returned |-> FALSE]
    ELSE [w |-> w, returned |-> FALSE]

\* RightMiss that starts the blink before it looks at the health
RightMiss_BlinkFirst(w) ==
    IF w.gs.ballX > Px(CANVAS_WIDTH)
    THEN LET lost == [w EXCEPT !.gs.rightHealth = @ - HealthStep,
                               !.rightHealth = w.gs.rightHealth - HealthStep,
                               !.gs.currentSpeedMultiplier = 1000,
                               !.sounds = @ \cup {"healthLoss"}]
             blink == StartBlink(lost, "right")
         IN  IF lost.gs.rightHealth <= 0
             THEN [blink EXCEPT !.gs.isRunning = FALSE,
                                !.isRunning = FALSE,
                                !.gameOver = TRUE,
                                !.winner = "PLAYER",
                                !.sounds = @ \cup {"gameOver"}]
             ELSE blink
    ELSE w

\* if (state.ballX > CANVAS_WIDTH) { ... }
RightMiss(w) ==
    IF w.gs.ballX > Px(CANVAS_WIDTH)
    THEN LET lost == [w EXCEPT !.gs.rightHealth = @ - HealthStep,
                               !.rightHealth = w.gs.rightHealth - HealthStep,
                               !.gs.currentSpeedMultiplier = 1000,
                               !.sounds = @ \cup {"healthLoss"}]
         IN  IF lost.gs.rightHealth <= 0
             THEN [lost EXCEPT !.gs.isRunning = FALSE,
                               !.isRunning = FALSE,
                               !.gameOver = TRUE,
                               !.winner = "PLAYER",
                               !.sounds = @ \cup {"gameOver"}]
             ELSE StartBlink(lost, "right")
    ELSE w

OutOfBounds(w) ==
    LET l == LeftMiss(w)
    IN  IF l.returned THEN l.w ELSE RightMiss(l.w)

\* a cycle timer that is never reset
BlinkAdvance_NoReset(anim) ==
    LET cycle == anim.blinkCycleTimer + BlinkStepMs
    IN  [anim EXCEPT !.blinkTimer = @ + BlinkStepMs,
                     !.blinkCycleTimer = cycle,
                     !.isBlinkVisible = IF cycle >= BlinkCycleMs THEN ~@ ELSE @]

\* ------------------------------------------------------------------------
\* updateGame: the blink pause (lines 238-268)
\* ------------------------------------------------------------------------
\* the timers and the visibility toggle of one blink tick (lines 240-247)
BlinkAdvance(anim) ==
    LET cycle == anim.blinkCycleTimer + BlinkStepMs
    IN  [anim EXCEPT !.blinkTimer = @ + BlinkStepMs,
                     !.blinkCycleTimer = IF cycle >= BlinkCycleMs THEN 0 ELSE cycle,
                     !.isBlinkVisible = IF cycle >= BlinkCycleMs THEN ~@ ELSE @]

\* state.ballVelX > 0 ? -BASE_BALL_SPEED : BASE_BALL_SPEED (line 260)
ServeVelX(ballVelX) ==
    IF ballVelX > 0 THEN 0 - Px(BASE_BALL_SPEED) ELSE Px(BASE_BALL_SPEED)

\* a blink that ends only after more than 2000 ms
BlinkTick_Late(w, rServe) ==
    LET toggled == BlinkAdvance(w.anim)
    IN  IF toggled.blinkTimer > BlinkTotalMs
        THEN [w EXCEPT !.anim = [blinkingPaddle |-> "null", blinkTimer |-> 0,
                                 blinkCycleTimer |-> 0, isBlinkVisible |-> TRUE],
                       !.gs.ballX = Px(CANVAS_WIDTH) \div 2,
                       !.gs.ballY = Px(CANVAS_HEIGHT) \div 2,
                       !.gs.prevBallX = Px(CANVAS_WIDTH) \div 2,
                       !.gs.ballVelX = ServeVelX(w.gs.ballVelX),
                       !.serves[w.anim.blinkingPaddle] = ServeVelX(w.gs.ballVelX),
                       !.gs.ballVelY = MulFix(Px(6), rServe) - Px(3),
                       !.gs.currentSpeedMultiplier = 1000,
                       !.sounds = @ \cup {"score"}]
        ELSE [w EXCEPT !.anim = toggled]

BlinkTick(w, rServe) ==
    LET toggled == BlinkAdvance(w.anim)
    IN  IF toggled.blinkTimer >= BlinkTotalMs
        THEN [w EXCEPT !.anim = [blinkingPaddle |-> "null", blinkTimer |-> 0,
                                 blinkCycleTimer |-> 0, isBlinkVisible |-> TRUE],
                       !.gs.ballX = Px(CANVAS_WIDTH) \div 2,
                       !.gs.ballY = Px(CANVAS_HEIGHT) \div 2,
                       !.gs.prevBallX = Px(CANVAS_WIDTH) \div 2,
                       !.gs.ballVelX = ServeVelX(w.gs.ballVelX),
                       !.serves[w.anim.blinkingPaddle] = ServeVelX(w.gs.ballVelX),
                       !.gs.ballVelY = MulFix(Px(6), rServe) - Px(3),
                       !.gs.currentSpeedMultiplier = 1000,
                       !.sounds = @ \cup {"score"}]
        ELSE [w EXCEPT !.anim = toggled]

\* ------------------------------------------------------------------------
\* updateGame (lines 233-705): one simulation pass
\* ------------------------------------------------------------------------
\* updateGame that keeps the bullets flying while a paddle blinks
UpdateGame_BlinkMovesBullets(w, rnd) ==
    IF w.anim.blinkingPaddle # "null"
    THEN UpdateBullets(BlinkTick(w, rnd.serve))
    ELSE LET w1 == UpdateBullets(w)
             w2 == UpdateItems(w1, rnd.interval, rnd.itemY)
             w3 == MoveLeftPaddle(w2)
             w4 == MoveRightPaddle(UpdateAiTarget(w3, rnd.ai))
             w5 == MoveBall(w4)
             w6 == LeftPaddleCollision(w5)
             w7 == RightPaddleCollision(w6)
         IN  OutOfBounds(w7)

\* updateGame that runs paddles and ball before bullets and items
UpdateGame_PhysicsFirst(w, rnd) ==
    IF w.anim.blinkingPaddle # "null"
    THEN BlinkTick(w, rnd.serve)
    ELSE LET w1 == MoveLeftPaddle(w)
             w2 == MoveRightPaddle(UpdateAiTarget(w1, rnd.ai))
             w3 == MoveBall(w2)
             w4 == LeftPaddleCollision(w3)
             w5 == RightPaddleCollision([w4 EXCEPT !.pixels = EnsurePixels(@)])
             w6 == OutOfBounds(w5)
             w7 == UpdateBullets(w6)
         IN  UpdateItems(w7, rnd.interval, rnd.itemY)

UpdateGame(w, rnd) ==
    IF w.anim.blinkingPaddle # "null"
    THEN BlinkTick(w, rnd.serve)
    ELSE LET w1 == UpdateBullets(w)
             w2 == UpdateItems(w1, rnd.interval, rnd.itemY)
             w3 == MoveLeftPaddle(w2)
             w4 == MoveRightPaddle(UpdateAiTarget(w3, rnd.ai))
             w5 == MoveBall(w4)
             w6 == LeftPaddleCollision(w5)
             w7 == RightPaddleCollision(w6)
         IN  OutOfBounds(w7)

\* ------------------------------------------------------------------------
\* PlatformerScreen (lines 972-1584): the side-scrolling mode
\* ------------------------------------------------------------------------
\* characterRef (lines 978-982), in pixels
CharacterStartX == 100
CharacterStartY == 125
CharacterWidth == 24
CharacterHeight == 24

\* horizontal speeds (lines 1106, 1110), jump impulse (1124) and gravity
\* (1131), in thousandths of a pixel per tick: 1.5, 2.5, 6 and 0.3
WalkSpeed == 1500
RunSpeed == 2500
JumpSpeed == 6000
Gravity == 300

\* nextX < -130 (line 1137)
LeftWallX == 0 - Px(130)

\* cameraRef.current.y: it starts at its target -130 (lines 996, 998) and the
\* lerp of line 1282 leaves it there
CameraY == 0 - Px(130)

\* canvas.height / 2 (lines 1267, 1562)
ScreenHeight == 300

\* the buffer below the camera view (line 1286)
DeathBuffer == 100

\* platform.y + 20 in the landing test (line 1177)
LandingDepth == 20

\* the level (lines 1089-1094): the long platform and the wall at its left end
Platforms ==
    << [x |-> 0 - Px(150), y |-> Px(149), width |-> Px(4000), height |-> Px(20)],
       [x |-> 0 - Px(150), y |-> Px(69), width |-> Px(20), height |-> Px(80)] >>

\* the keys the platformer's loop reads, among those of its keysRef
PlatformerKeys == {" ", "ArrowLeft", "ArrowRight", "Shift"}

\* a PlatformerScreen instance as React creates it: fresh refs and state
\* (lines 973-991, 1017); loop tells whether the callback requested through
\* platformerLoopRef is pending
FreshPlatformer ==
    [mounted |-> TRUE,
     x |-> Px(CharacterStartX), y |-> Px(CharacterStartY),
     velocityX |-> 0, velocityY |-> 0, grounded |-> FALSE,
     gameOver |-> FALSE, loop |-> FALSE, keys |-> {}]

\* no PlatformerScreen is rendered
NoPlatformer == [FreshPlatformer EXCEPT !.mounted = FALSE]

\* for (const platform of platforms) { ... } (lines 1147-1185), from platform i
RECURSIVE PlatformCollisions(_, _)
PlatformCollisions(c, i) ==
    IF i > Len(Platforms) THEN c
    ELSE
      LET platform == Platforms[i]
          overlapX == /\ c.x + Px(CharacterWidth) > platform.x
                      /\ c.x < platform.x + platform.width
          overlapY == /\ c.y + Px(CharacterHeight) > platform.y
                      /\ c.y < platform.y + platform.height
          overlapLeft == (c.x + Px(CharacterWidth)) - platform.x
          overlapRight == (platform.x + platform.width) - c.x
          overlapTop == (c.y + Px(CharacterHeight)) - platform.y
          overlapBottom == (platform.y + platform.height) - c.y
          minOverlapX == Min2(overlapLeft, overlapRight)
          minOverlapY == Min2(overlapTop, overlapBottom)
      IN  IF ~(overlapX /\ overlapY) THEN PlatformCollisions(c, i + 1)
          ELSE IF minOverlapX < minOverlapY /\ c.velocityX # 0
          THEN PlatformCollisions(
                 [c EXCEPT !.x = IF c.velocityX > 0
                                 THEN platform.x - Px(CharacterWidth)
                                 ELSE platform.x + platform.width,
                           !.velocityX = 0], i + 1)
          ELSE IF /\ c.velocityY >= 0
                  /\ c.y + Px(CharacterHeight) >= platform.y
                  /\ c.y + Px(CharacterHeight) <= platform.y + Px(LandingDepth)
          THEN [c EXCEPT !.y = platform.y - Px(CharacterHeight),
                         !.velocityY = 0,
                         !.grounded = TRUE]
          ELSE PlatformCollisions(c, i + 1)

\* the platformer's loop without the grounded test of the jump
PlatformerStep_AirJump(p) ==
    LET newVelocityX ==
          IF "ArrowLeft" \in p.keys
          THEN (IF "Shift" \in p.keys THEN 0 - RunSpeed ELSE 0 - WalkSpeed)
          ELSE IF "ArrowRight" \in p.keys
          THEN (IF "Shift" \in p.keys THEN RunSpeed ELSE WalkSpeed)
          ELSE 0
        jumped == IF " " \in p.keys
                  THEN [p EXCEPT !.velocityY = 0 - JumpSpeed, !.grounded = FALSE]
                  ELSE p
        velocityY == jumped.velocityY + Gravity
        nextX == p.x + newVelocityX
        moved == [jumped EXCEPT
                    !.x = IF nextX < LeftWallX THEN LeftWallX ELSE nextX,
                    !.velocityX = IF nextX < LeftWallX THEN 0 ELSE newVelocityX,
                    !.velocityY = velocityY,
                    !.y = @ + velocityY,
                    !.grounded = FALSE]
        c == PlatformCollisions(moved, 1)
        cameraBottomY == CameraY + Px(ScreenHeight)
    IN  IF c.y > cameraBottomY + Px(DeathBuffer)
        THEN [c EXCEPT !.gameOver = TRUE, !.loop = FALSE]
        ELSE [c EXCEPT !.loop = TRUE]

\* the platformer's loop that requests the next frame after a fall, too
PlatformerStep_KeepLooping(p) ==
    LET newVelocityX ==
          IF "ArrowLeft" \in p.keys
          THEN (IF "Shift" \in p.keys THEN 0 - RunSpeed ELSE 0 - WalkSpeed)
          ELSE IF "ArrowRight" \in p.keys
          THEN (IF "Shift" \in p.keys THEN RunSpeed ELSE WalkSpeed)
          ELSE 0
        jumped == IF " " \in p.keys /\ p.grounded
                  THEN [p EXCEPT !.velocityY = 0 - JumpSpeed, !.grounded = FALSE]
                  ELSE p
        velocityY == jumped.velocityY + Gravity
        nextX == p.x + newVelocityX
        moved == [jumped EXCEPT
                    !.x = IF nextX < LeftWallX THEN LeftWallX ELSE nextX,
                    !.velocityX = IF nextX < LeftWallX THEN 0 ELSE newVelocityX,
                    !.velocityY = velocityY,
                    !.y = @ + velocityY,
                    !.grounded = FALSE]
        c == PlatformCollisions(moved, 1)
        cameraBottomY == CameraY + Px(ScreenHeight)
    IN  IF c.y > cameraBottomY + Px(DeathBuffer)
        THEN [c EXCEPT !.gameOver = TRUE, !.loop = TRUE]
        ELSE [c EXCEPT !.loop = TRUE]

\* gameLoop of the platformer (lines 1096-1530), without the drawing: input,
\* jump, gravity, left wall, platforms, death test, next frame
PlatformerStep(p) ==
    LET newVelocityX ==
          IF "ArrowLeft" \in p.keys
          THEN (IF "Shift" \in p.keys THEN 0 - RunSpeed ELSE 0 - WalkSpeed)
          ELSE IF "ArrowRight" \in p.keys
          THEN (IF "Shift" \in p.keys THEN RunSpeed ELSE WalkSpeed)
          ELSE 0
        jumped == IF " " \in p.keys /\ p.grounded
                  THEN [p EXCEPT !.velocityY = 0 - JumpSpeed, !.grounded = FALSE]
                  ELSE p
        velocityY == jumped.velocityY + Gravity
        nextX == p.x + newVelocityX
        moved == [jumped EXCEPT
                    !.x = IF nextX < LeftWallX THEN LeftWallX ELSE nextX,
                    !.velocityX = IF nextX < LeftWallX THEN 0 ELSE newVelocityX,
                    !.velocityY = velocityY,
                    !.y = @ + velocityY,
                    !.grounded = FALSE]
        c == PlatformCollisions(moved, 1)
        cameraBottomY == CameraY + Px(ScreenHeight)
    IN  IF c.y > cameraBottomY + Px(DeathBuffer)
        THEN [c EXCEPT !.gameOver = TRUE, !.loop = FALSE]
        ELSE [c EXCEPT !.loop = TRUE]

\* mounting a PlatformerScreen: the loop effect calls gameLoop() at once
\* (line 1531) on the fresh instance
MountPlatformer == PlatformerStep(FreshPlatformer)

\* ------------------------------------------------------------------------
\* State
\* ------------------------------------------------------------------------
VARIABLES
    gameState,        \* gameStateRef.current
    aiState,          \* aiStateRef.current
    animState,        \* animationStateRef.current
    cpuPaddlePixels,  \* cpuPaddlePixelsRef.current
    cpuPaddleHealth,  \* cpuPaddleHealthRef.current (hits remaining)
    cpuPaddleEdges,   \* cpuPaddleEdgesRef.current
    bullets,          \* bulletsRef.current
    lastShotTime,     \* lastShotTimeRef.current
    items,            \* itemsRef.current
    lastItemSpawn,    \* lastItemSpawnRef.current
    keys,             \* keysRef.current, the entries the match reads ('w', 's')
    gameLoopRef,      \* gameLoopRef.current, 0 for undefined
    currentScreen,    \* React state of the last render ...
    isRunning,
    leftHealth,
    rightHealth,
    remainingBullets,
    gameOver,
    winner,
    noBulletsMessage,
    now,              \* Date.now()
    pendingFrames,    \* requestAnimationFrame callbacks waiting for the next frame
    frameQueue,       \* callbacks of the frame in progress that have not run yet
    nextFrameId,      \* the handle the next requestAnimationFrame returns
    timeouts,         \* pending setTimeout callbacks
    sounds,           \* audio triggers of the last handler
    hits,             \* confirmed bullet hits since the grid was initialized
    serves,           \* ballVelX of the last serve after a miss of each side, 0 for none
    stopMark,         \* handles below it were requested before the last pause or restart
    spawnedAt,        \* Date.now() of the last item spawn since the mount, 0 for none
    platformer,       \* the rendered PlatformerScreen: its refs and state
    platformerFrames, \* budget counter: passes of the platformer's loop
    handler,          \* the handler that ran last
    frames,           \* budget counters of the exploration
    events

refVars == <<gameState, aiState, animState, cpuPaddlePixels, cpuPaddleHealth,
             cpuPaddleEdges, bullets, lastShotTime, items, lastItemSpawn, keys,
             gameLoopRef>>
uiVars == <<currentScreen, isRunning, leftHealth, rightHealth, remainingBullets,
            gameOver, winner, noBulletsMessage>>
envVars == <<now, pendingFrames, frameQueue, nextFrameId, timeouts>>
auxVars == <<sounds, hits, serves, stopMark, spawnedAt, handler, frames, events>>
platformerVars == <<platformer, platformerFrames>>
vars == <<refVars, uiVars, envVars, auxVars, platformerVars>>

\* Date.now() when the component mounts
StartTime == 100000

\* the initial gameStateRef (lines 41-53)
InitialGameState ==
    [ballX |-> Px(400), ballY |-> Px(300),
     ballVelX |-> Px(BASE_BALL_SPEED), ballVelY |-> Px(3),
     prevBallX |-> Px(400),
     leftPaddleY |-> Px(250), rightPaddleY |-> Px(250),
     leftHealth |-> InitialHealth, rightHealth |-> InitialHealth,
     isRunning |-> FALSE,
     currentSpeedMultiplier |-> 1000]

\* lines 56-60
InitialAiState == [targetY |-> Px(250), lastBallDirection |-> 0, frameCounter |-> 0]

\* lines 63-68
InitialAnimState ==
    [blinkingPaddle |-> "null", blinkTimer |-> 0, blinkCycleTimer |-> 0,
     isBlinkVisible |-> TRUE]

InitialEdges == [topPixelsRemoved |-> 0, bottomPixelsRemoved |-> 0]

\* no ball has been served after a miss yet
NoServes == [left |-> 0, right |-> 0]

\* the component after its first render and mount effect (lines 23-112, 869-882)
Mounted ==
    /\ gameState = InitialGameState
    /\ aiState = InitialAiState
    /\ animState = InitialAnimState
    /\ cpuPaddlePixels = initializeCpuPaddle
    /\ cpuPaddleHealth = InitialPaddleHealth
    /\ cpuPaddleEdges = InitialEdges
    /\ bullets = << >>
    /\ lastShotTime = 0
    /\ items = << >>
    /\ lastItemSpawn = 0
    /\ keys = [w |-> FALSE, s |-> FALSE]
    /\ gameLoopRef = 0
    /\ currentScreen = "menu"
    /\ isRunning = FALSE
    /\ leftHealth = InitialHealth
    /\ rightHealth = InitialHealth
    /\ remainingBullets = InitialBullets
    /\ gameOver = FALSE
    /\ winner = "null"
    /\ noBulletsMessage = FALSE
    /\ now = StartTime
    /\ pendingFrames = {}
    /\ frameQueue = {}
    /\ nextFrameId = 1
    /\ timeouts = << >>
    /\ sounds = {}
    /\ handler = "mount"
    /\ hits = 0
    /\ serves = NoServes
    /\ stopMark = 0
    /\ spawnedAt = 0
    /\ frames = 0
    /\ events = 0
    /\ platformer = NoPlatformer
    /\ platformerFrames = 0

\* ------------------------------------------------------------------------
\* The animation-frame callback
\* ------------------------------------------------------------------------
\* the part of the program state that updateGame reads and writes
World(t) ==
    [gs |-> gameState, ai |-> aiState, anim |-> animState,
     pixels |-> cpuPaddlePixels, health |-> cpuPaddleHealth, edges |-> cpuPaddleEdges,
     bullets |-> bullets, items |-> items, lastItemSpawn |-> lastItemSpawn,
     keys |-> keys, now |-> t,
     isRunning |-> isRunning, leftHealth |-> leftHealth, rightHealth |-> rightHealth,
     remainingBullets |-> remainingBullets, gameOver |-> gameOver, winner |-> winner,
     timeouts |-> timeouts, sounds |-> {}, hits |-> hits, serves |-> serves]

Store(w) ==
    /\ gameState' = w.gs
    /\ aiState' = w.ai
    /\ animState' = w.anim
    /\ cpuPaddlePixels' = w.pixels
    /\ cpuPaddleHealth' = w.health
    /\ cpuPaddleEdges' = w.edges
    /\ bullets' = w.bullets
    /\ items' = w.items
    /\ lastItemSpawn' = w.lastItemSpawn
    /\ isRunning' = w.isRunning
    /\ leftHealth' = w.leftHealth
    /\ rightHealth' = w.rightHealth
    /\ remainingBullets' = w.remainingBullets
    /\ gameOver' = w.gameOver
    /\ winner' = w.winner
    /\ timeouts' = w.timeouts
    /\ sounds' = w.sounds
    /\ hits' = w.hits
    /\ serves' = w.serves

SetMin(S) == CHOOSE x \in S : \A y \in S : x <= y

\* the values of Math.random() one pass draws: the serve angle when the blink
\* pause ends (line 261), the spawn interval and position of an item (434, 438)
\* and the AI's aiming error (507); a value that the pass does not draw or
\* does not use is left at 0
RandomDraws ==
    LET blinking == animState.blinkingPaddle # "null"
        serving == blinking /\ animState.blinkTimer + BlinkStepMs >= BlinkTotalMs
        spawns == ~blinking /\ now + FrameMs - lastItemSpawn > 12000
        aims == ~blinking /\ gameState.ballVelX > 0 /\ (aiState.frameCounter + 1) % 4 = 0
        elapsed == now + FrameMs - lastItemSpawn
        Intervals == IF spawns /\ elapsed <= 15000 THEN RandomValues ELSE {0}
        ItemYs(i) == IF spawns /\ elapsed > 12000 + MulFix(3000, i)
                     THEN RandomValues ELSE {0}
    IN  UNION { [serve : IF serving THEN RandomValues ELSE {0},
                 interval : {i},
                 itemY : ItemYs(i),
                 ai : IF aims THEN RandomValues ELSE {0}] : i \in Intervals }

\* a callback of the game loop is scheduled and can run next: the timers that
\* are due run before a new frame begins
CallbackReady ==
    /\ pendingFrames \cup frameQueue # {}
    /\ frameQueue = {} => \A i \in DOMAIN timeouts : timeouts[i].due > now

\* gameLoop (lines 707-713), run by the browser for the oldest callback of the
\* frame; a frame that begins takes all callbacks requested before it
RunCallback ==
    /\ CallbackReady
    /\ LET starting == frameQueue = {}
           queue == IF starting THEN pendingFrames ELSE frameQueue
           t == IF starting THEN now + FrameMs ELSE now
           id == SetMin(queue)
           later == IF starting THEN {} ELSE pendingFrames
       IN  /\ now' = t
           /\ frameQueue' = queue \ {id}
           /\ frames' = frames + 1
           /\ handler' = "gameLoop"
           /\ IF gameState.isRunning
              THEN /\ \E rnd \in RandomDraws : Store(UpdateGame(World(t), rnd))
                   /\ gameLoopRef' = nextFrameId
                   /\ pendingFrames' = later \cup {nextFrameId}
                   /\ nextFrameId' = nextFrameId + 1
              ELSE /\ pendingFrames' = later
                   /\ sounds' = {}
                   /\ UNCHANGED <<gameState, aiState, animState, cpuPaddlePixels,
                                  cpuPaddleHealth, cpuPaddleEdges, bullets, items,
                                  lastItemSpawn, isRunning, leftHealth, rightHealth,
                                  remainingBullets, gameOver, winner, timeouts, hits, serves,
                                  gameLoopRef, nextFrameId>>
    /\ spawnedAt' = IF "itemSpawned" \in sounds' THEN now' ELSE spawnedAt
    /\ UNCHANGED <<lastShotTime, keys, currentScreen, noBulletsMessage, stopMark, events>>

\* the callbacks of the explored behaviours
GameLoop == frames < MaxFrames /\ RunCallback

\* ------------------------------------------------------------------------
\* startGame and pauseGame (lines 715-786)
\* ------------------------------------------------------------------------
\* cancelAnimationFrame(gameLoopRef.current), guarded by if (gameLoopRef.current)
CancelFrame == IF gameLoopRef # 0 THEN pendingFrames \ {gameLoopRef} ELSE pendingFrames

\* requestAnimationFrame(gameLoop) on the set `pending`
RequestFrame(pending) ==
    /\ gameLoopRef' = nextFrameId
    /\ pendingFrames' = pending \cup {nextFrameId}
    /\ nextFrameId' = nextFrameId + 1

\* a restart that leaves the ball where the match ended
RestartGame_KeepBall ==
    /\ gameState' = [InitialGameState EXCEPT !.isRunning = TRUE,
                                          !.ballX = gameState.ballX,
                                          !.ballY = gameState.ballY]
    /\ aiState' = InitialAiState
    /\ animState' = InitialAnimState
    /\ cpuPaddlePixels' = initializeCpuPaddle
    /\ cpuPaddleHealth' = InitialPaddleHealth
    /\ cpuPaddleEdges' = InitialEdges
    /\ hits' = 0
    /\ serves' = NoServes
    /\ stopMark' = nextFrameId
    /\ UNCHANGED spawnedAt
    /\ bullets' = << >>
    /\ items' = << >>
    /\ lastItemSpawn' = 0
    /\ isRunning' = TRUE
    /\ leftHealth' = InitialHealth
    /\ rightHealth' = InitialHealth
    /\ remainingBullets' = InitialBullets
    /\ gameOver' = FALSE
    /\ winner' = "null"
    /\ noBulletsMessage' = FALSE
    /\ sounds' = {"gameStart"}
    /\ RequestFrame(CancelFrame)

\* the restart branch of startGame (lines 716-771)
RestartGame ==
    /\ gameState' = [InitialGameState EXCEPT !.isRunning = TRUE]
    /\ aiState' = InitialAiState
    /\ animState' = InitialAnimState
    /\ cpuPaddlePixels' = initializeCpuPaddle
    /\ cpuPaddleHealth' = InitialPaddleHealth
    /\ cpuPaddleEdges' = InitialEdges
    /\ hits' = 0
    /\ serves' = NoServes
    /\ stopMark' = nextFrameId
    /\ UNCHANGED spawnedAt
    /\ bullets' = << >>
    /\ items' = << >>
    /\ lastItemSpawn' = 0
    /\ isRunning' = TRUE
    /\ leftHealth' = InitialHealth
    /\ rightHealth' = InitialHealth
    /\ remainingBullets' = InitialBullets
    /\ gameOver' = FALSE
    /\ winner' = "null"
    /\ noBulletsMessage' = FALSE
    /\ sounds' = {"gameStart"}
    /\ RequestFrame(CancelFrame)

\* a resume that starts the blink over
ResumeGame_ResetBlink ==
    /\ gameState' = [gameState EXCEPT !.isRunning = TRUE]
    /\ isRunning' = TRUE
    /\ sounds' = {"gameStart"}
    /\ RequestFrame(pendingFrames)
    /\ UNCHANGED <<stopMark, spawnedAt>>
    /\ animState' = [animState EXCEPT !.blinkTimer = 0, !.blinkCycleTimer = 0]
    /\ UNCHANGED <<aiState, cpuPaddlePixels, cpuPaddleHealth, cpuPaddleEdges,
                   hits, serves, bullets, items, lastItemSpawn, leftHealth, rightHealth,
                   remainingBullets, gameOver, winner, noBulletsMessage>>

\* the start / resume branch of startGame (lines 773-776)
ResumeGame ==
    /\ gameState' = [gameState EXCEPT !.isRunning = TRUE]
    /\ isRunning' = TRUE
    /\ sounds' = {"gameStart"}
    /\ RequestFrame(pendingFrames)
    /\ UNCHANGED <<stopMark, spawnedAt>>
    /\ UNCHANGED <<aiState, animState, cpuPaddlePixels, cpuPaddleHealth, cpuPaddleEdges,
                   hits, serves, bullets, items, lastItemSpawn, leftHealth, rightHealth,
                   remainingBullets, gameOver, winner, noBulletsMessage>>

startGame == IF gameOver THEN RestartGame ELSE ResumeGame

pauseGame ==
    /\ gameState' = [gameState EXCEPT !.isRunning = FALSE]
    /\ isRunning' = FALSE
    /\ sounds' = {"gamePause"}
    /\ pendingFrames' = CancelFrame
    /\ stopMark' = nextFrameId
    /\ UNCHANGED spawnedAt
    /\ UNCHANGED <<gameLoopRef, nextFrameId>>
    /\ UNCHANGED <<aiState, animState, cpuPaddlePixels, cpuPaddleHealth, cpuPaddleEdges,
                   hits, serves, bullets, items, lastItemSpawn, leftHealth, rightHealth,
                   remainingBullets, gameOver, winner, noBulletsMessage>>

\* ------------------------------------------------------------------------
\* Key handlers (lines 796-858); handlers run between frames
\* ------------------------------------------------------------------------
Idle == frameQueue = {}

\* a setTimeout callback whose delay has elapsed is waiting to run
TimerDue == \E i \in DOMAIN timeouts : timeouts[i].due <= now

\* between frames with no timer waiting: a timer that is due runs before the
\* events and frames that come after it
Quiet == Idle /\ ~TimerDue

HeldKeys == {"w", "s"}

\* keysRef.current[e.key] = value, for the keys the match reads
SetKey(k, v) == IF k \in HeldKeys THEN [keys EXCEPT ![k] = v] ELSE keys

\* Escape on a screen other than the menu (lines 800-804)
KeyDownEscape ==
    /\ Quiet /\ events < MaxEvents
    /\ handler' = "keyEscape"
    /\ currentScreen # "menu"
    /\ currentScreen' = "menu"
    /\ sounds' = {}
    /\ events' = events + 1
    /\ UNCHANGED <<refVars, isRunning, leftHealth, rightHealth, remainingBullets,
                   gameOver, winner, noBulletsMessage, envVars, hits, serves, stopMark, spawnedAt, frames>>

\* Enter: pause when running, otherwise start, resume or restart (lines 807-814)
KeyDownEnter ==
    /\ Quiet /\ events < MaxEvents
    /\ handler' = "keyEnter"
    /\ IF isRunning THEN pauseGame ELSE startGame
    /\ events' = events + 1
    /\ UNCHANGED <<lastShotTime, keys, currentScreen, now, frameQueue, timeouts,
                   frames>>

\* the bullet a shot creates (lines 825-833)
NewBullet ==
    LET paddleCenterY == gameState.leftPaddleY + Px(PADDLE_HEIGHT) \div 2
    IN  [x |-> Px(PADDLE_WIDTH + 2),
         y |-> paddleCenterY - Px(BULLET_SIZE) \div 2,
         vx |-> Px(BULLET_SPEED),
         vy |-> 0]

\* KeyDownSpace without the rate limit
KeyDownSpace_NoCooldown ==
    /\ Quiet /\ events < MaxEvents
    /\ handler' = "keySpace"
    /\ events' = events + 1
    /\ IF isRunning
       THEN /\ lastShotTime' = now
            /\ IF remainingBullets > 0
               THEN /\ bullets' = Append(bullets, NewBullet)
                    /\ remainingBullets' = remainingBullets - 1
                    /\ sounds' = {"bulletFired"}
                    /\ UNCHANGED <<noBulletsMessage, timeouts>>
               ELSE /\ noBulletsMessage' = TRUE
                    /\ timeouts' = Append(timeouts, [fn |-> "hideNoBullets", due |-> now + 1000])
                    /\ sounds' = {"emptyGun"}
                    /\ UNCHANGED <<bullets, remainingBullets>>
       ELSE /\ sounds' = {}
            /\ UNCHANGED <<lastShotTime, bullets, remainingBullets, noBulletsMessage, timeouts>>
    /\ UNCHANGED <<gameState, aiState, animState, cpuPaddlePixels, cpuPaddleHealth,
                   cpuPaddleEdges, items, lastItemSpawn, keys, gameLoopRef,
                   currentScreen, isRunning, leftHealth, rightHealth, gameOver, winner,
                   now, pendingFrames, frameQueue, nextFrameId, hits, serves, stopMark, spawnedAt, frames>>

\* Space (lines 817-853)
KeyDownSpace ==
    /\ Quiet /\ events < MaxEvents
    /\ handler' = "keySpace"
    /\ events' = events + 1
    /\ IF isRunning /\ now - lastShotTime > ShotCooldownMs
       THEN /\ lastShotTime' = now
            /\ IF remainingBullets > 0
               THEN /\ bullets' = Append(bullets, NewBullet)
                    /\ remainingBullets' = remainingBullets - 1
                    /\ sounds' = {"bulletFired"}
                    /\ UNCHANGED <<noBulletsMessage, timeouts>>
               ELSE /\ noBulletsMessage' = TRUE
                    /\ timeouts' = Append(timeouts, [fn |-> "hideNoBullets", due |-> now + 1000])
                    /\ sounds' = {"emptyGun"}
                    /\ UNCHANGED <<bullets, remainingBullets>>
       ELSE /\ sounds' = {}
            /\ UNCHANGED <<lastShotTime, bullets, remainingBullets, noBulletsMessage, timeouts>>
    /\ UNCHANGED <<gameState, aiState, animState, cpuPaddlePixels, cpuPaddleHealth,
                   cpuPaddleEdges, items, lastItemSpawn, keys, gameLoopRef,
                   currentScreen, isRunning, leftHealth, rightHealth, gameOver, winner,
                   now, pendingFrames, frameQueue, nextFrameId, hits, serves, stopMark, spawnedAt, frames>>

\* 'w' or 's' pressed: only keysRef changes
KeyDownMove(k) ==
    /\ Quiet /\ events < MaxEvents
    /\ handler' = "keyMove"
    /\ ~keys[k]
    /\ keys' = SetKey(k, TRUE)
    /\ sounds' = {}
    /\ events' = events + 1
    /\ UNCHANGED <<gameState, aiState, animState, cpuPaddlePixels, cpuPaddleHealth,
                   cpuPaddleEdges, bullets, lastShotTime, items, lastItemSpawn,
                   gameLoopRef, uiVars, envVars, hits, serves, stopMark, spawnedAt, frames>>

\* handleKeyUp (lines 856-858)
KeyUp(k) ==
    /\ Quiet /\ events < MaxEvents
    /\ handler' = "keyUp"
    /\ keys[k]
    /\ keys' = SetKey(k, FALSE)
    /\ sounds' = {}
    /\ events' = events + 1
    /\ UNCHANGED <<gameState, aiState, animState, cpuPaddlePixels, cpuPaddleHealth,
                   cpuPaddleEdges, bullets, lastShotTime, items, lastItemSpawn,
                   gameLoopRef, uiVars, envVars, hits, serves, stopMark, spawnedAt, frames>>

\* ------------------------------------------------------------------------
\* Menu and placeholder screens (lines 885-970, 1586-1601)
\* ------------------------------------------------------------------------
\* [ STORY MODE ]: setCurrentScreen('game'); startGame()
ClickStoryMode ==
    /\ Quiet /\ events < MaxEvents
    /\ handler' = "clickStoryMode"
    /\ currentScreen = "menu"
    /\ currentScreen' = "game"
    /\ startGame
    /\ events' = events + 1
    /\ UNCHANGED <<lastShotTime, keys, now, frameQueue, timeouts, frames>>

\* [ PLAY ], [ ONLINE ], [ SETTINGS ]
ClickScreen(screen) ==
    /\ Quiet /\ events < MaxEvents
    /\ handler' = "clickScreen"
    /\ currentScreen = "menu"
    /\ currentScreen' = screen
    /\ sounds' = {"menuClick"}
    /\ events' = events + 1
    /\ UNCHANGED <<refVars, isRunning, leftHealth, rightHealth, remainingBullets,
                   gameOver, winner, noBulletsMessage, envVars, hits, serves, stopMark, spawnedAt, frames>>

\* [ BACK TO MENU ]
ClickBack ==
    /\ Quiet /\ events < MaxEvents
    /\ handler' = "clickBack"
    /\ currentScreen \in {"online", "settings", "play"}
    /\ currentScreen' = "menu"
    /\ sounds' = {"menuClick"}
    /\ events' = events + 1
    /\ UNCHANGED <<refVars, isRunning, leftHealth, rightHealth, remainingBullets,
                   gameOver, winner, noBulletsMessage, envVars, hits, serves, stopMark, spawnedAt, frames>>

\* ------------------------------------------------------------------------
\* Timers and the wall clock
\* ------------------------------------------------------------------------
\* a setTimeout callback whose delay has elapsed runs (lines 416, 848)
Timeout ==
    /\ Idle
    /\ handler' = "timeout"
    /\ \E i \in 1..Len(timeouts) :
          /\ timeouts[i].due <= now
          /\ timeouts' = Splice(timeouts, i)
          /\ IF timeouts[i].fn = "hideNoBullets"
             THEN noBulletsMessage' = FALSE /\ sounds' = {}
             ELSE sounds' = {"paddleDamaged"} /\ UNCHANGED noBulletsMessage
    /\ UNCHANGED <<refVars, currentScreen, isRunning, leftHealth, rightHealth,
                   remainingBullets, gameOver, winner, now, pendingFrames, frameQueue,
                   nextFrameId, hits, serves, stopMark, spawnedAt, frames, events>>

\* durations that pass without a frame or an event, up to the next timer
WaitTimes == {1000}

Wait ==
    /\ Quiet /\ events < MaxEvents
    /\ handler' = "none"
    /\ \E d \in WaitTimes :
          now' = SetMin({now + d} \cup {timeouts[i].due : i \in DOMAIN timeouts})
    /\ events' = events + 1
    /\ sounds' = {}
    /\ UNCHANGED <<refVars, uiVars, pendingFrames, frameQueue, nextFrameId, timeouts,
                   hits, serves, stopMark, spawnedAt, frames>>

\* ------------------------------------------------------------------------
\* The platformer screen
\* ------------------------------------------------------------------------
\* PlatformerScreen is declared inside PongGame's render (line 972), so each
\* render of PongGame yields a new component type: React unmounts the rendered
\* instance (the cleanup of line 1533 cancels its frame) and mounts a fresh
\* one.  PongGame renders again when a handler has changed its state; a key
\* that the handler's event pressed stays in the keysRef of an instance that
\* is kept.
RenderPlatformer(pressed) ==
    /\ platformer' =
         IF currentScreen' # "play" THEN NoPlatformer
         ELSE IF currentScreen # "play" \/ uiVars' # uiVars THEN MountPlatformer
         ELSE [platformer EXCEPT !.keys = @ \cup pressed]
    /\ UNCHANGED platformerFrames

\* the callback requested through platformerLoopRef runs
PlatformerGameLoop ==
    /\ Quiet /\ platformerFrames < MaxFrames
    /\ platformer.mounted /\ platformer.loop
    /\ platformer' = PlatformerStep(platformer)
    /\ platformerFrames' = platformerFrames + 1
    /\ handler' = "platformerLoop"
    /\ sounds' = {}
    /\ now' = IF pendingFrames = {} THEN now + FrameMs ELSE now
    /\ UNCHANGED <<refVars, uiVars, pendingFrames, frameQueue, nextFrameId, timeouts,
                   hits, serves, stopMark, spawnedAt, frames, events>>

\* a key the platformer reads goes down: keysRef.current[e.key] = true (line 1022)
PlatformerKeyDown(k) ==
    /\ Quiet /\ events < MaxEvents
    /\ platformer.mounted /\ k \notin platformer.keys
    /\ platformer' = [platformer EXCEPT !.keys = @ \cup {k}]
    /\ handler' = "platformerKeyDown"
    /\ sounds' = {}
    /\ events' = events + 1
    /\ UNCHANGED <<refVars, uiVars, envVars, hits, serves, stopMark, spawnedAt, frames,
                   platformerFrames>>

\* handleKeyUp of the platformer (lines 1039-1041)
PlatformerKeyUp(k) ==
    /\ Quiet /\ events < MaxEvents
    /\ platformer.mounted /\ k \in platformer.keys
    /\ platformer' = [platformer EXCEPT !.keys = @ \ {k}]
    /\ handler' = "platformerKeyUp"
    /\ sounds' = {}
    /\ events' = events + 1
    /\ UNCHANGED <<refVars, uiVars, envVars, hits, serves, stopMark, spawnedAt, frames,
                   platformerFrames>>

\* 'r' or 'R' on the game-over overlay (lines 1025-1031): setRestartKey renders
\* PongGame again, which replaces the instance; restartKey is read nowhere
\* else and is not kept
KeyDownR ==
    /\ Quiet /\ events < MaxEvents
    /\ platformer.mounted /\ platformer.gameOver
    /\ platformer' = MountPlatformer
    /\ handler' = "keyR"
    /\ sounds' = {}
    /\ events' = events + 1
    /\ UNCHANGED <<refVars, uiVars, envVars, hits, serves, stopMark, spawnedAt, frames,
                   platformerFrames>>

\* ------------------------------------------------------------------------
\* Mid-match snapshots
\*
\* A match lasts thousands of frames.  Besides the freshly mounted component
\* the exploration starts from states of a match in progress, taken shortly
\* before the events of interest: the game screen is shown, the match runs,
\* one frame callback is pending; the item spawned last has been collected
\* (or, in the item snapshots, is still on the field) and the next is not due.
\* ------------------------------------------------------------------------
\* the grid after k confirmed hits
RECURSIVE GridAfter(_)
GridAfter(k) ==
    IF k = 0
    THEN [pixels |-> initializeCpuPaddle, health |-> InitialPaddleHealth,
          edges |-> InitialEdges]
    ELSE ErodeEdges(GridAfter(k - 1))

\* the blink state after n ticks of a pause of `side` that has not ended: the
\* cycle timer restarts, and the paddle toggles, every CycleTicks ticks
BlinkAfter(side, n) ==
    LET CycleTicks == (BlinkCycleMs + BlinkStepMs - 1) \div BlinkStepMs
    IN  [blinkingPaddle |-> side,
         blinkTimer |-> n * BlinkStepMs,
         blinkCycleTimer |-> (n % CycleTicks) * BlinkStepMs,
         isBlinkVisible |-> (n \div CycleTicks) % 2 = 0]

\* the speed multiplier after k paddle hits of one rally
RECURSIVE SpeedAfter(_)
SpeedAfter(k) == IF k = 0 THEN 1000 ELSE SpeedUp(SpeedAfter(k - 1))

\* ball and paddles of the snapshots
BallSnapshots ==
    \* served ball about to reach the CPU paddle, at three heights of the paddle
    { [fam |-> "right", k |-> k, lh |-> InitialHealth, rh |-> InitialHealth,
       shots |-> << >>,
       gs |-> [InitialGameState EXCEPT !.ballX = Px(780), !.prevBallX = Px(775),
                                       !.ballY = y, !.ballVelY = Px(3)]] :
        k \in 0..InitialPaddleHealth, y \in {Px(295), Px(262), Px(235)} }
    \cup
    \* served ball that has just reached the face of the CPU paddle without a
    \* bounce: below the paddle, or level with rows that are all destroyed
    { [fam |-> "through", k |-> c.k, lh |-> InitialHealth, rh |-> rh, shots |-> << >>,
       gs |-> [InitialGameState EXCEPT !.ballX = Px(785), !.prevBallX = Px(780),
                                       !.ballY = c.y, !.ballVelY = Px(3)]] :
        c \in { [k |-> 0, y |-> Px(352)], [k |-> 3, y |-> Px(262)],
                [k |-> InitialPaddleHealth, y |-> Px(295)] },
        rh \in {InitialHealth, HealthStep} }
    \cup
    \* ball returned by the CPU paddle about to reach the left edge; the CPU
    \* paddle has come to rest 7 steps above y = 250
    { [fam |-> "left", k |-> 0, lh |-> lh, rh |-> InitialHealth, shots |-> << >>,
       gs |-> [InitialGameState EXCEPT !.ballX = Px(14) + 500, !.prevBallX = Px(20),
                                       !.ballY = y, !.ballVelX = 0 - Px(BASE_BALL_SPEED),
                                       !.ballVelY = Px(2),
                                       !.currentSpeedMultiplier = 1100,
                                       !.rightPaddleY = @ - 7 * AiPaddleSpeed]] :
        lh \in {InitialHealth, HealthStep}, y \in {Px(260), Px(400)} }
    \cup
    \* bullets one frame away from the CPU paddle, fired from two paddle heights
    { [fam |-> "bullets", k |-> k, lh |-> InitialHealth, rh |-> InitialHealth,
       shots |-> shots,
       gs |-> [InitialGameState EXCEPT !.ballX = Px(600), !.prevBallX = Px(595),
                                       !.ballY = Px(295), !.ballVelY = Px(1)]] :
        k \in 0..InitialPaddleHealth,
        shots \in { <<Px(292) + 500, Px(292) + 500>>, <<Px(252) + 500>> } }
    \cup
    \* the CPU's last health points: the ball has passed rows that three hits
    \* destroyed, and a fourth bullet is one frame away from the paddle
    { [fam |-> "timer", k |-> 3, lh |-> InitialHealth, rh |-> HealthStep,
       shots |-> <<Px(292) + 500>>,
       gs |-> [InitialGameState EXCEPT !.ballX = Px(785), !.prevBallX = Px(780),
                                       !.ballY = Px(262), !.ballVelY = Px(3)]] }
    \cup
    \* served ball about to reach the top rows of the intact CPU paddle, and a
    \* bullet one frame away from the paddle
    { [fam |-> "erode", k |-> 0, lh |-> InitialHealth, rh |-> InitialHealth,
       shots |-> <<Px(252) + 500>>,
       gs |-> [InitialGameState EXCEPT !.ballX = Px(780), !.prevBallX = Px(775),
                                       !.ballY = Px(235), !.ballVelY = Px(3)]] }
    \cup
    \* ball of a long rally, 28 paddle hits after the serve: returned level by
    \* the left paddle (ballX = 11), it has flown 10 ticks towards the CPU paddle
    { [fam |-> "fast", k |-> 0, lh |-> InitialHealth, rh |-> InitialHealth,
       shots |-> << >>,
       gs |-> [InitialGameState EXCEPT
                 !.currentSpeedMultiplier = SpeedAfter(28),
                 !.ballX = Px(PADDLE_WIDTH + 1)
                           + 10 * MulFix(Px(BASE_BALL_SPEED), SpeedAfter(28)),
                 !.prevBallX = Px(PADDLE_WIDTH + 1)
                               + 9 * MulFix(Px(BASE_BALL_SPEED), SpeedAfter(28)),
                 !.ballY = Px(300), !.ballVelY = 0]] }
    \cup
    \* served ball one tick away from the top wall
    { [fam |-> "wall", k |-> 0, lh |-> InitialHealth, rh |-> InitialHealth,
       shots |-> << >>,
       gs |-> [InitialGameState EXCEPT !.ballX = Px(600), !.prevBallX = Px(595),
                                       !.ballY = Px(2), !.ballVelY = 0 - Px(3)]] }
    \cup
    \* ball returned once by each paddle, 97 ticks after the left paddle's hit
    \* and near the bottom wall, the CPU paddle having followed it down to 36
    \* steps below y = 250
    { [fam |-> "low", k |-> 0, lh |-> InitialHealth, rh |-> InitialHealth,
       shots |-> << >>,
       gs |-> [InitialGameState EXCEPT
                 !.currentSpeedMultiplier = SpeedAfter(2),
                 !.ballX = Px(PADDLE_WIDTH + 1)
                           + 97 * MulFix(Px(BASE_BALL_SPEED), SpeedAfter(2)),
                 !.prevBallX = Px(PADDLE_WIDTH + 1)
                               + 96 * MulFix(Px(BASE_BALL_SPEED), SpeedAfter(2)),
                 !.ballY = Px(570), !.ballVelY = Px(3),
                 !.rightPaddleY = @ + 36 * AiPaddleSpeed]] }
    \cup
    \* ball of a rally of 8 paddle hits, returned upward by the top of the left
    \* paddle 71 ticks ago and faster than the CPU paddle, which lags below it
    { [fam |-> "spin", k |-> 0, lh |-> InitialHealth, rh |-> InitialHealth,
       shots |-> << >>,
       gs |-> [InitialGameState EXCEPT
                 !.currentSpeedMultiplier = SpeedAfter(8),
                 !.ballX = Px(PADDLE_WIDTH + 1)
                           + 71 * MulFix(Px(BASE_BALL_SPEED), SpeedAfter(8)),
                 !.prevBallX = Px(PADDLE_WIDTH + 1)
                               + 70 * MulFix(Px(BASE_BALL_SPEED), SpeedAfter(8)),
                 !.ballY = Px(252), !.ballVelY = 0 - Px(4),
                 !.rightPaddleY = @ + AiPaddleSpeed]] }
    \cup
    \* served ball 40 ticks after the serve; the player has held 'w', or 's',
    \* for 31 of them and released it: the left paddle is 31 steps from y = 250
    { [fam |-> "edge", k |-> 0, lh |-> InitialHealth, rh |-> InitialHealth,
       shots |-> << >>,
       gs |-> [InitialGameState EXCEPT !.ballX = Px(600), !.prevBallX = Px(595),
                                       !.ballY = Px(295), !.ballVelY = Px(1),
                                       !.leftPaddleY = y]] :
        y \in {Px(250) - 31 * Px(BASE_PADDLE_SPEED), Px(250) + 31 * Px(BASE_PADDLE_SPEED)} }

\* an ammo item on the field: its height, its age in ms and the player's ammo
ItemSnapshots ==
    { [y |-> Px(349), age |-> 5000, ammo |-> 5],
      [y |-> Px(349), age |-> 5000, ammo |-> 0],
      [y |-> Px(349), age |-> ItemLifeMs - 10, ammo |-> 5],
      [y |-> Px(420), age |-> ItemLifeMs - 10, ammo |-> 5] }

\* the bullet fired `age` frames ago from height y
FlyingBullet(y, age) ==
    [x |-> Px(PADDLE_WIDTH + 2) + age * Px(BULLET_SPEED), y |-> y,
     vx |-> Px(BULLET_SPEED), vy |-> 0]

RunningSnapshot(b) ==
    LET g == GridAfter(b.k)
    IN  /\ gameState = [b.gs EXCEPT !.isRunning = TRUE, !.leftHealth = b.lh,
                                    !.rightHealth = b.rh]
        /\ aiState = [targetY |-> b.gs.ballY + Px(BALL_SIZE) \div 2,
                      lastBallDirection |-> b.gs.ballVelX,
                      frameCounter |-> 78]
        /\ animState = InitialAnimState
        /\ cpuPaddlePixels = g.pixels
        /\ cpuPaddleHealth = g.health
        /\ cpuPaddleEdges = g.edges
        /\ hits = b.k
        /\ serves = NoServes
        /\ bullets = [i \in 1..Len(b.shots) |-> FlyingBullet(b.shots[i], 30)]
        /\ remainingBullets = InitialBullets - b.k - Len(b.shots)
        /\ leftHealth = b.lh
        /\ rightHealth = b.rh

\* a running match with an item that the left paddle, having just moved down
\* to y = 250, touches (y = 349) or does not touch (y = 420); three shots have
\* hit the CPU paddle and the other shots fired have left the field
ItemSnapshot(c) ==
    LET g == GridAfter(3)
    IN  /\ gameState = [InitialGameState EXCEPT !.isRunning = TRUE,
                                                !.ballX = Px(600), !.prevBallX = Px(595),
                                                !.ballY = Px(295), !.ballVelY = Px(1)]
        /\ aiState = [targetY |-> Px(300), lastBallDirection |-> Px(BASE_BALL_SPEED),
                      frameCounter |-> 78]
        /\ animState = InitialAnimState
        /\ cpuPaddlePixels = g.pixels
        /\ cpuPaddleHealth = g.health
        /\ cpuPaddleEdges = g.edges
        /\ hits = 3
        /\ serves = NoServes
        /\ bullets = << >>
        /\ remainingBullets = c.ammo
        /\ leftHealth = InitialHealth
        /\ rightHealth = InitialHealth
        /\ lastItemSpawn = StartTime + FrameMs
        /\ items = <<[x |-> 0, y |-> c.y, spawnTime |-> lastItemSpawn]>>
        /\ now = lastItemSpawn + c.age

\* the number of executed blink passes of the snapshots: before the first
\* toggle of the visibility, before 400 ms, and two passes before the end
BlinkSnapshotTicks(side) == IF side = "left" THEN {12, 24, 123} ELSE {123}

\* the blink pause n passes after a miss of `side`; the other side has missed
\* once before, and the ball was served after its pause
BlinkSnapshot(side, n) ==
    LET missed == [InitialGameState EXCEPT
                     !.isRunning = TRUE,
                     !.ballX = IF side = "left" THEN 0 - Px(2) ELSE Px(805),
                     !.prevBallX = IF side = "left" THEN Px(3) + 500 ELSE Px(800),
                     !.ballY = Px(400),
                     !.leftHealth = @ - HealthStep,
                     !.rightHealth = @ - HealthStep]
        w == StartBlink([gs |-> missed, anim |-> InitialAnimState], side)
        other == IF side = "left" THEN "right" ELSE "left"
    IN  /\ gameState = w.gs
        /\ aiState = [targetY |-> Px(405),
                      lastBallDirection |-> IF side = "left" THEN 0 - Px(BASE_BALL_SPEED)
                                            ELSE Px(BASE_BALL_SPEED),
                      frameCounter |-> 78]
        /\ animState = BlinkAfter(side, n)
        /\ cpuPaddlePixels = initializeCpuPaddle
        /\ cpuPaddleHealth = InitialPaddleHealth
        /\ cpuPaddleEdges = InitialEdges
        /\ hits = 0
        /\ serves = [NoServes EXCEPT ![other] = ServeVelX(w.gs.ballVelX)]
        /\ bullets = << >>
        /\ remainingBullets = InitialBullets
        /\ leftHealth = w.gs.leftHealth
        /\ rightHealth = w.gs.rightHealth

\* the last press of Space: 30 frames ago or, with no ammo left, an empty shot
\* 60 frames ago whose no-ammo message is still shown
ShotSnapshots(ammo) ==
    { [ago |-> 30 * FrameMs, empty |-> FALSE] }
    \cup (IF ammo = 0 THEN { [ago |-> 60 * FrameMs, empty |-> TRUE] } ELSE {})

\* the state around the match of a snapshot: last shot, keys, animation
\* frames, screen
MatchEnvironment ==
    /\ \E shot \in ShotSnapshots(remainingBullets) :
          /\ lastShotTime = now - shot.ago
          /\ noBulletsMessage = shot.empty
          /\ timeouts = IF shot.empty
                        THEN <<[fn |-> "hideNoBullets", due |-> lastShotTime + 1000]>>
                        ELSE << >>
    /\ keys = [w |-> FALSE, s |-> FALSE]
    /\ \E loops \in (IF gameState.ballY = Px(2) THEN 1..2 ELSE {1}) :
          /\ gameLoopRef = loops
          /\ pendingFrames = 1..loops
          /\ nextFrameId = loops + 1
    /\ frameQueue = {}
    /\ stopMark = 0
    /\ spawnedAt = lastItemSpawn
    /\ currentScreen = "game"
    /\ isRunning = TRUE
    /\ gameOver = FALSE
    /\ winner = "null"
    /\ sounds = {}
    /\ handler = "gameLoop"
    /\ frames = 0
    /\ events = 0
    /\ platformer = NoPlatformer
    /\ platformerFrames = 0

InMatch ==
    /\ \/ /\ \/ \E b \in BallSnapshots : RunningSnapshot(b)
             \/ \E side \in {"left", "right"} :
                   \E n \in BlinkSnapshotTicks(side) : BlinkSnapshot(side, n)
          /\ lastItemSpawn = StartTime + FrameMs
          /\ now = lastItemSpawn + 5000
          /\ items = << >>
       \/ \E c \in ItemSnapshots : ItemSnapshot(c)
    /\ MatchEnvironment

\* ------------------------------------------------------------------------
\* Snapshots of the platformer
\*
\* The player has clicked [ PLAY ] on the menu of the freshly mounted
\* component; no match has been started.  The character lands on the long
\* platform in the first pass of the loop and leaves it only by jumping or at
\* its right end, 3750 pixels from the start.
\* ------------------------------------------------------------------------
\* n passes after a jump from the platform
Airborne(n) ==
    [MountPlatformer EXCEPT !.velocityY = Gravity * n - JumpSpeed,
                            !.y = @ - JumpSpeed * n + (Gravity * n * (n + 1)) \div 2,
                            !.grounded = FALSE]

\* n passes after running off the right end of the platform: the pass that
\* left it moved the character from x = 3849.5 to x = 3852
Falling(n) ==
    [MountPlatformer EXCEPT !.x = Px(3852) + (n - 1) * RunSpeed,
                            !.velocityX = RunSpeed,
                            !.velocityY = Gravity * n,
                            !.y = @ + (Gravity * n * (n + 1)) \div 2,
                            !.grounded = FALSE,
                            !.keys = {"ArrowRight", "Shift"}]

PlatformerSnapshots ==
    \* standing where the character starts
    { [MountPlatformer EXCEPT !.keys = held] :
        held \in { {}, {" "}, {"ArrowRight", "Shift"} } }
    \cup
    \* rising after a jump with the jump key still held, and coming down
    { [Airborne(3) EXCEPT !.keys = {" "}], Airborne(38) }
    \cup
    \* coming down from a jump near the right end of the platform, walking right:
    \* 2492 walking and 2 running steps from the start
    { [Airborne(38) EXCEPT !.x = Px(CharacterStartX) + 2492 * WalkSpeed + 2 * RunSpeed,
                           !.velocityX = WalkSpeed,
                           !.keys = {"ArrowRight"}] }
    \cup
    \* two passes before the fall past the death threshold
    { Falling(29) }

InPlatformer ==
    /\ gameState = InitialGameState
    /\ aiState = InitialAiState
    /\ animState = InitialAnimState
    /\ cpuPaddlePixels = initializeCpuPaddle
    /\ cpuPaddleHealth = InitialPaddleHealth
    /\ cpuPaddleEdges = InitialEdges
    /\ bullets = << >>
    /\ lastShotTime = 0
    /\ items = << >>
    /\ lastItemSpawn = 0
    /\ keys = [w |-> FALSE, s |-> FALSE]
    /\ gameLoopRef = 0
    /\ currentScreen = "play"
    /\ isRunning = FALSE
    /\ leftHealth = InitialHealth
    /\ rightHealth = InitialHealth
    /\ remainingBullets = InitialBullets
    /\ gameOver = FALSE
    /\ winner = "null"
    /\ noBulletsMessage = FALSE
    /\ now = StartTime + 5000
    /\ pendingFrames = {}
    /\ frameQueue = {}
    /\ nextFrameId = 1
    /\ timeouts = << >>
    /\ sounds = {}
    /\ handler = "platformerLoop"
    /\ hits = 0
    /\ serves = NoServes
    /\ stopMark = 0
    /\ spawnedAt = 0
    /\ frames = 0
    /\ events = 0
    /\ platformer \in PlatformerSnapshots
    /\ platformerFrames = 0

Init == Mounted \/ InMatch \/ InPlatformer

\* every handler of PongGame runs on every screen; the platformer's own
\* handlers and loop run while it is rendered
Next ==
    \/ GameLoop /\ RenderPlatformer({})
    \/ KeyDownEscape /\ RenderPlatformer({})
    \/ KeyDownEnter /\ RenderPlatformer({})
    \/ KeyDownSpace /\ RenderPlatformer({" "})
    \/ \E k \in HeldKeys : KeyDownMove(k) /\ RenderPlatformer({})
    \/ \E k \in HeldKeys : KeyUp(k) /\ RenderPlatformer({})
    \/ ClickStoryMode /\ RenderPlatformer({})
    \/ \E screen \in {"play", "online", "settings"} :
          ClickScreen(screen) /\ RenderPlatformer({})
    \/ ClickBack /\ RenderPlatformer({})
    \/ Timeout /\ RenderPlatformer({})
    \/ Wait /\ RenderPlatformer({})
    \/ PlatformerGameLoop
    \/ \E k \in PlatformerKeys \ {" "} : PlatformerKeyDown(k)
    \/ \E k \in PlatformerKeys : PlatformerKeyUp(k)
    \/ KeyDownR

Spec == Init /\ [][Next]_vars

\* ------------------------------------------------------------------------
\* A match played to its end
\*
\* The fifth bullet has eroded the last rows of the CPU paddle and the player
\* touches no key any more.  While gameStateRef.current.isRunning every
\* callback of the game loop requests the next one (line 711) and the browser
\* runs a requested callback and a due timer: both are weakly fair.  PlayOn
\* is the only step that counts a frame and is enabled whenever a callback is
\* ready, so its fairness is stated on FrameRuns.
\* ------------------------------------------------------------------------
\* the ball about to cross the line of the eroded paddle; the ball that the
\* CPU returned before the last hit, about to reach the left edge level with
\* the player's paddle (y = 260) or below it (y = 400); and the served ball
\* in mid-field with the fifth hit one frame away
ErodedSnapshots ==
    { [b EXCEPT !.k = InitialPaddleHealth, !.rh = 2 * HealthStep] :
        b \in { c \in BallSnapshots :
                  \/ c.fam = "through" /\ c.gs.ballY = Px(295) /\ c.rh = InitialHealth
                  \/ c.fam = "left" } }
    \cup
    { [b EXCEPT !.rh = 2 * HealthStep] :
        b \in { c \in BallSnapshots :
                  c.fam = "bullets" /\ c.k = InitialPaddleHealth - 1 /\ Len(c.shots) = 2 } }

ErodedMatch ==
    /\ \E b \in ErodedSnapshots : RunningSnapshot(b)
    /\ lastItemSpawn = StartTime + FrameMs
    /\ now = lastItemSpawn + 5000
    /\ items = << >>
    /\ MatchEnvironment

\* the callbacks of a match played to its end
PlayOn == frames < MaxPlayFrames /\ RunCallback /\ RenderPlatformer({})

TimerFires == Timeout /\ RenderPlatformer({})

PlayNext == PlayOn \/ TimerFires

\* a callback that is ready runs: the step of PlayOn seen as the step that
\* counts a frame
FrameRuns == frames < MaxPlayFrames /\ CallbackReady /\ frames' = frames + 1

PlaySpec ==
    /\ ErodedMatch
    /\ [][PlayNext]_vars
    /\ WF_frames(FrameRuns)
    /\ WF_vars(TimerFires)

\* ------------------------------------------------------------------------
\* Properties
\* ------------------------------------------------------------------------
\* a simulation pass in which the left (right) side missed the ball
LeftMissed ==
    handler' = "gameLoop" /\ "healthLoss" \in sounds' /\ gameState'.ballX < 0
RightMissed ==
    handler' = "gameLoop" /\ "healthLoss" \in sounds' /\ gameState'.ballX > Px(CANVAS_WIDTH)

\* the restart branch of startGame ran
Restarted == gameOver /\ ~gameOver'

HealthValues == {n * HealthStep : n \in 0..(InitialHealth \div HealthStep)}

\* C1: both healths are always in {0, 10, ..., 100}; a health value changes
\* only by a decrement of exactly 10 in a pass where that side missed, or by
\* the reset to 100 of a restart.
C1_HealthSteps ==
    /\ [](/\ gameState.leftHealth \in HealthValues
          /\ gameState.rightHealth \in HealthValues)
    /\ [][/\ gameState'.leftHealth # gameState.leftHealth =>
               \/ LeftMissed /\ gameState'.leftHealth = gameState.leftHealth - HealthStep
               \/ Restarted /\ gameState'.leftHealth = InitialHealth
          /\ gameState'.rightHealth # gameState.rightHealth =>
               \/ RightMissed /\ gameState'.rightHealth = gameState.rightHealth - HealthStep
               \/ Restarted /\ gameState'.rightHealth = InitialHealth]_vars

\* a miss has just brought the left health from 10 to 0
C1_Witness ==
    /\ handler = "gameLoop" /\ "healthLoss" \in sounds
    /\ gameState.ballX < 0
    /\ gameState.leftHealth = 0

\* C2: a miss that brings the health of the side that missed to 0 ends the
\* match in the same pass (loop flag and isRunning false, gameOver set, no
\* blink started, winner PLAYER for the right side and CPU for the left); a
\* miss that leaves the health above 0 starts the blink pause of that side.
C2_MissOutcome ==
    [][/\ LeftMissed =>
            /\ gameState.isRunning /\ animState.blinkingPaddle = "null"
            /\ IF gameState'.leftHealth <= 0
               THEN /\ ~gameState'.isRunning /\ ~isRunning' /\ gameOver'
                    /\ winner' = "CPU"
                    /\ animState'.blinkingPaddle = "null"
               ELSE /\ animState'.blinkingPaddle = "left"
                    /\ gameState'.isRunning /\ isRunning' /\ ~gameOver'
       /\ RightMissed =>
            /\ gameState.isRunning /\ animState.blinkingPaddle = "null"
            /\ IF gameState'.rightHealth <= 0
               THEN /\ ~gameState'.isRunning /\ ~isRunning' /\ gameOver'
                    /\ winner' = "PLAYER"
                    /\ animState'.blinkingPaddle = "null"
               ELSE /\ animState'.blinkingPaddle = "right"
                    /\ gameState'.isRunning /\ isRunning' /\ ~gameOver']_vars

\* the CPU has just lost its last health while the player still has some
C2_Witness ==
    /\ handler = "gameLoop" /\ "gameOver" \in sounds
    /\ gameState.rightHealth = 0 /\ gameState.leftHealth > 0
    /\ winner = "PLAYER" /\ gameOver /\ ~gameState.isRunning
    /\ animState.blinkingPaddle = "null"

\* the state of the match that C3 speaks of
MatchState ==
    <<gameState, cpuPaddlePixels, cpuPaddleHealth, cpuPaddleEdges, bullets, items,
      remainingBullets>>

\* C3: once the match is over, nothing but the restart of startGame changes
\* ball, paddles, healths, grid, bullets, items or ammo: not a frame callback
\* that was already scheduled, not a shoot key.
C3_GameOverTerminal ==
    [][gameOver /\ ~Restarted => UNCHANGED MatchState]_vars

\* the match is over, the callback scheduled by the last pass has run, and
\* the player has pressed the shoot key since
C3_Witness ==
    /\ gameOver
    /\ handler = "keySpace"
    /\ pendingFrames = {} /\ frameQueue = {}

\* C4: the speed multiplier is never below 1.0; apart from the passes in which
\* a side misses it changes only by the factor 1.1 of a paddle hit, so it
\* never decreases between two scorings; after a pass in which a side missed
\* it is exactly 1.0.
C4_SpeedMultiplier ==
    /\ [](gameState.currentSpeedMultiplier >= 1000)
    /\ [][LET m == gameState.currentSpeedMultiplier
              n == gameState'.currentSpeedMultiplier
          IN  /\ n # m =>
                   \/ /\ n = (m * 11) \div 10
                      /\ handler' = "gameLoop" /\ "paddleHit" \in sounds'
                   \/ (LeftMissed \/ RightMissed) /\ n = 1000
              /\ LeftMissed \/ RightMissed => n = 1000]_vars

\* the player has just missed a ball that the CPU paddle had sped up
C4_Witness ==
    /\ handler = "gameLoop" /\ "healthLoss" \in sounds
    /\ gameState.ballX < 0
    /\ gameState.currentSpeedMultiplier = 1000

\* a simulation pass that is not a pass of the blink pause
PlayTick ==
    /\ frames' = frames + 1
    /\ gameState.isRunning
    /\ animState.blinkingPaddle = "null"

\* C5: after exactly k confirmed bullet hits since the grid was initialized or
\* re-initialized, k in 0..5, both edge counters are min(10k, 50) and the hit
\* counter of the paddle is 5 - k.
C5_EdgesAfterHits ==
    /\ hits \in 0..InitialPaddleHealth
    /\ cpuPaddleEdges.topPixelsRemoved = Min2(10 * hits, 50)
    /\ cpuPaddleEdges.bottomPixelsRemoved = Min2(10 * hits, 50)
    /\ cpuPaddleHealth = InitialPaddleHealth - hits

\* two bullets of one pass have both been confirmed as hits on a fresh paddle
C5_Witness ==
    /\ handler = "gameLoop" /\ "bulletImpact" \in sounds
    /\ hits = 2
    /\ cpuPaddleHealth = 3
    /\ bullets = <<>>

GridCells == (0..(PADDLE_WIDTH - 1)) \X (0..(PADDLE_HEIGHT - 1))

\* C6: within a match no cell goes from 0 back to a positive value, the edge
\* counters never decrease and never exceed 50, the hit counter never goes
\* below 0, and once it is 0 nothing changes grid, edge counters or hit counter.
C6_ErosionMonotone ==
    /\ [](/\ cpuPaddleEdges.topPixelsRemoved <= PADDLE_HEIGHT \div 2
          /\ cpuPaddleEdges.bottomPixelsRemoved <= PADDLE_HEIGHT \div 2
          /\ cpuPaddleHealth >= 0)
    /\ [][~Restarted =>
            /\ cpuPaddlePixels' # cpuPaddlePixels =>
                 \A c \in GridCells :
                    cpuPaddlePixels[c[1]][c[2]] = 0 => cpuPaddlePixels'[c[1]][c[2]] = 0
            /\ cpuPaddleEdges'.topPixelsRemoved >= cpuPaddleEdges.topPixelsRemoved
            /\ cpuPaddleEdges'.bottomPixelsRemoved >= cpuPaddleEdges.bottomPixelsRemoved
            /\ cpuPaddleHealth' <= cpuPaddleHealth
            /\ cpuPaddleHealth = 0 =>
                 UNCHANGED <<cpuPaddlePixels, cpuPaddleEdges, cpuPaddleHealth>>]_vars

\* a bullet flies through the box of a paddle that has no hits left
C6_Witness ==
    /\ handler = "gameLoop"
    /\ cpuPaddleHealth = 0
    /\ \E i \in DOMAIN bullets : BulletInPaddleBox(bullets[i], gameState.rightPaddleY)

\* C7: all columns of the grid are identical, the solid cells of a column are
\* exactly the rows from topPixelsRemoved up to, not including,
\* 100 - bottomPixelsRemoved, and after the 5th confirmed hit no cell is solid.
C7_SymmetricDamage ==
    /\ \A x \in 0..(PADDLE_WIDTH - 1) : cpuPaddlePixels[x] = cpuPaddlePixels[0]
    /\ \A y \in 0..(PADDLE_HEIGHT - 1) :
         cpuPaddlePixels[0][y] > 0 <=>
            /\ cpuPaddleEdges.topPixelsRemoved <= y
            /\ y < PADDLE_HEIGHT - cpuPaddleEdges.bottomPixelsRemoved
    /\ hits = 5 => \A c \in GridCells : cpuPaddlePixels[c[1]][c[2]] = 0

\* the 5th confirmed hit has just landed
C7_Witness ==
    /\ handler = "gameLoop" /\ "bulletImpact" \in sounds
    /\ hits = 5
    /\ cpuPaddleHealth = 0

\* the position of a bullet after the move of one pass
MovedBullet(b) == [b EXCEPT !.x = @ + b.vx, !.y = @ + b.vy]

\* the moved bullet overlaps the paddle's box and a solid cell of the column
\* under its horizontal centre, for the grid and the paddle position that the
\* pass starts with
HitsSolidCell(b) ==
    LET m == MovedBullet(b)
        col == (m.x + Px(BULLET_SIZE) \div 2 - Px(CANVAS_WIDTH - PADDLE_WIDTH)) \div PX
    IN  /\ BulletInPaddleBox(m, gameState.rightPaddleY)
        /\ col \in 0..(PADDLE_WIDTH - 1)
        /\ \E py \in 0..(PADDLE_HEIGHT - 1) :
             /\ cpuPaddlePixels[col][py] > 0
             /\ m.x < Px(CANVAS_WIDTH - PADDLE_WIDTH + col + 1)
             /\ m.x + Px(BULLET_SIZE) > Px(CANVAS_WIDTH - PADDLE_WIDTH + col)
             /\ m.y < gameState.rightPaddleY + Px(py + 1)
             /\ m.y + Px(BULLET_SIZE) > gameState.rightPaddleY + Px(py)

RECURSIVE KeepBullets(_, _, _)
\* the moved bullets of a list, without those that leave the canvas (or, when
\* `hitting` is set, those that overlap a solid cell of their primary column)
KeepBullets(bs, i, hitting) ==
    IF i > Len(bs) THEN <<>>
    ELSE IF \/ BulletOffScreen(MovedBullet(bs[i]))
            \/ hitting /\ HitsSolidCell(bs[i])
         THEN KeepBullets(bs, i + 1, hitting)
         ELSE <<MovedBullet(bs[i])>> \o KeepBullets(bs, i + 1, hitting)

\* C8: a pass removes a bullet at the paddle and decrements the hit counter
\* only for a bullet whose box overlaps a solid cell of its primary column; a
\* bullet that overlaps the paddle's bounding box without such a cell stays in
\* the list, keeps flying, and the pass leaves grid and hit counter unchanged.
C8_BulletHits ==
    [][PlayTick =>
         LET onCanvas == KeepBullets(bullets, 1, FALSE)
             missing == KeepBullets(bullets, 1, TRUE)
             removed == Len(onCanvas) - Len(bullets')
         IN  /\ cpuPaddleHealth - cpuPaddleHealth' = removed
             /\ removed <= Len(onCanvas) - Len(missing)
             /\ removed >= 0
             /\ \A i \in DOMAIN missing : \E j \in DOMAIN bullets' : bullets'[j] = missing[i]
             /\ Len(missing) = Len(onCanvas) =>
                  /\ bullets' = onCanvas
                  /\ UNCHANGED <<cpuPaddlePixels, cpuPaddleEdges, cpuPaddleHealth>>]_vars

\* a bullet is inside the bounding box of a paddle that still has hits left,
\* level with rows that earlier hits have destroyed, and is still in the list
C8_Witness ==
    /\ handler = "gameLoop"
    /\ cpuPaddleHealth > 0
    /\ hits > 0
    /\ \E i \in DOMAIN bullets :
         /\ BulletInPaddleBox(bullets[i], gameState.rightPaddleY)
         /\ bullets[i].x = Px(787)

\* the ball's position after the move of a pass, before any paddle acts on it
NextBallX == gameState.ballX + MulFix(gameState.ballVelX, gameState.currentSpeedMultiplier)

\* the ball, left of the right paddle's face before the move, overlaps the
\* paddle's bounding box after it
ReachesRightPaddle ==
    /\ gameState.ballX < Px(CANVAS_WIDTH - PADDLE_WIDTH)
    /\ NextBallX + Px(BALL_SIZE) > Px(CANVAS_WIDTH - PADDLE_WIDTH)
    /\ gameState'.ballY + Px(BALL_SIZE) > gameState'.rightPaddleY
    /\ gameState'.ballY < gameState'.rightPaddleY + Px(PADDLE_HEIGHT)

\* some cell that the moved ball's box overlaps is solid
BallOnSolidCell ==
    \E c \in GridCells :
        /\ cpuPaddlePixels'[c[1]][c[2]] > 0
        /\ NextBallX < Px(CANVAS_WIDTH - PADDLE_WIDTH + c[1] + 1)
        /\ NextBallX + Px(BALL_SIZE) > Px(CANVAS_WIDTH - PADDLE_WIDTH + c[1])
        /\ gameState'.ballY < gameState'.rightPaddleY + Px(c[2] + 1)
        /\ gameState'.ballY + Px(BALL_SIZE) > gameState'.rightPaddleY + Px(c[2])

\* the response of the right paddle
RightBounced ==
    /\ gameState'.ballVelX = 0 - gameState.ballVelX
    /\ gameState'.ballX = Px(CANVAS_WIDTH - PADDLE_WIDTH - BALL_SIZE - 1)
    /\ gameState'.currentSpeedMultiplier = (gameState.currentSpeedMultiplier * 11) \div 10

\* the ball's velocity and the speed multiplier are as no paddle had acted
Untouched ==
    /\ gameState'.ballVelX = gameState.ballVelX
    /\ gameState'.ballVelY \in {gameState.ballVelY, 0 - gameState.ballVelY}
    /\ gameState'.currentSpeedMultiplier = gameState.currentSpeedMultiplier
    /\ gameState'.ballX = NextBallX

ReachesLeftPaddle ==
    /\ gameState.ballX > Px(PADDLE_WIDTH)
    /\ NextBallX <= Px(PADDLE_WIDTH)
    /\ gameState'.leftPaddleY <= gameState'.ballY
    /\ gameState'.ballY <= gameState'.leftPaddleY + Px(PADDLE_HEIGHT)

\* C10: a pass in which the ball was right of x = 10, has moved to x <= 10 and
\* is level with the left paddle inverts ballVelX, sets ballVelY to
\* ((ballY - leftPaddleY) / 100 - 0.5) * 8, puts the ball at x = 11 and
\* multiplies the speed multiplier by 1.1; in any other pass the left paddle
\* changes none of these.
C10_LeftPaddleHit ==
    [][PlayTick =>
         IF ReachesLeftPaddle
         THEN /\ gameState'.ballVelX = 0 - gameState.ballVelX
              /\ gameState'.ballVelY =
                   ((gameState'.ballY - gameState'.leftPaddleY) * 8) \div PADDLE_HEIGHT - Px(4)
              /\ gameState'.ballX = Px(11)
              /\ gameState'.currentSpeedMultiplier =
                   (gameState.currentSpeedMultiplier * 11) \div 10
         ELSE \/ Untouched
              \/ RightBounced /\ ReachesRightPaddle
              \/ LeftMissed \/ RightMissed]_vars

\* the left paddle has just returned a ball that the CPU paddle had sped up
C10_Witness ==
    /\ handler = "gameLoop" /\ "paddleHit" \in sounds
    /\ gameState.ballX = Px(11)
    /\ gameState.ballVelX > 0
    /\ gameState.currentSpeedMultiplier = 1210

\* the item is alive when the pass looks at it, `t` being the time of the pass
ItemAlive(it, t) == ~(t - it.spawnTime > ItemLifeMs)

\* the item's box touches the left paddle where the pass finds it
ItemTouched(it) ==
    /\ it.x < Px(PADDLE_WIDTH + ItemSize)
    /\ it.x + Px(ItemSize) > 0
    /\ it.y < gameState.leftPaddleY + Px(PADDLE_HEIGHT)
    /\ it.y + Px(ItemSize) > gameState.leftPaddleY

ItemsOf(list) == {list[i] : i \in DOMAIN list}

\* C11: a pass in which the left paddle collects an item within the item's
\* lifetime leaves the player with min(a + 2, 8) rounds, a being the ammo the
\* player has at that moment, and removes the item.
C11_AmmoAfterCollection ==
    [][PlayTick /\ (\E it \in ItemsOf(items) : ItemAlive(it, now') /\ ItemTouched(it)) =>
         /\ remainingBullets' = Min2(remainingBullets + 2, MaxBullets)
         /\ \A it \in ItemsOf(items) :
              ItemAlive(it, now') /\ ItemTouched(it) => it \notin ItemsOf(items')]_vars

\* C12: an item older than 10000 ms when a pass processes the items is removed
\* by that pass and grants nothing, even when it touches the left paddle; an
\* item leaves the list only by expiry, by collection or by the restart, and
\* an item that has left never comes back.
C12_ExpiryBeforeCollection ==
    [][/\ PlayTick =>
            /\ \A it \in ItemsOf(items) :
                 /\ ~ItemAlive(it, now') => it \notin ItemsOf(items')
                 /\ it \notin ItemsOf(items') => ~ItemAlive(it, now') \/ ItemTouched(it)
            /\ /\ \A it \in ItemsOf(items) : ~(ItemAlive(it, now') /\ ItemTouched(it))
               /\ lastItemSpawn' = lastItemSpawn
               => remainingBullets' = remainingBullets /\ "itemCollected" \notin sounds'
       /\ ~PlayTick => items' = items \/ (Restarted /\ items' = << >>)
       /\ \A it \in ItemsOf(items') \ ItemsOf(items) :
            /\ it.spawnTime = now'
            /\ \A old \in ItemsOf(items) : old.spawnTime < it.spawnTime]_vars

\* the item of the snapshot has expired in the first pass, and the player,
\* whose paddle it touched, still has the 5 rounds of before
C12_Witness ==
    /\ handler = "gameLoop" /\ frames = 1
    /\ items = << >>
    /\ now - lastItemSpawn > ItemLifeMs
    /\ remainingBullets = 5
    /\ "itemCollected" \notin sounds

\* a step of the shoot key
ShootKey == handler' = "keySpace" /\ events' = events + 1

\* C13: a bullet is created only by a shoot key-down while the match runs, the
\* ammo is above 0 and more than 300 ms have passed since the last accepted
\* shoot action, and it costs exactly one round; an accepted shoot action with
\* ammo 0 creates no bullet and raises the no-ammo signal; ammo stays in 0..8.
C13_Shooting ==
    /\ [](remainingBullets \in 0..MaxBullets)
    /\ [][/\ Len(bullets') > Len(bullets) =>
               /\ ShootKey
               /\ isRunning /\ gameState.isRunning
               /\ remainingBullets > 0
               /\ now - lastShotTime > ShotCooldownMs
               /\ remainingBullets' = remainingBullets - 1
               /\ Len(bullets') = Len(bullets) + 1
               /\ \A i \in DOMAIN bullets : bullets'[i] = bullets[i]
          /\ ShootKey /\ isRunning /\ now - lastShotTime > ShotCooldownMs =>
               IF remainingBullets > 0
               THEN Len(bullets') = Len(bullets) + 1
               ELSE /\ bullets' = bullets
                    /\ remainingBullets' = 0
                    /\ noBulletsMessage'
                    /\ "emptyGun" \in sounds'
          /\ remainingBullets' < remainingBullets => Len(bullets') = Len(bullets) + 1]_vars

\* the player has pulled the trigger with no round left
C13_Witness ==
    /\ handler = "keySpace" /\ "emptyGun" \in sounds
    /\ remainingBullets = 0
    /\ noBulletsMessage
    /\ bullets = << >>

\* the pass recomputes the AI's target: the counter reaches a multiple of 4
\* while the ball travels toward the AI
AiRecomputes ==
    /\ PlayTick
    /\ (aiState.frameCounter + 1) % 4 = 0
    /\ gameState.ballVelX > 0

\* C14: aiState.targetY changes only in a running, non-blinking pass in which
\* the incremented frameCounter is a multiple of 4 and the ball moves toward
\* the AI (ballVelX > 0); every other pass and every key or menu step short of
\* the restart keeps it; a recomputed target lies within 15 px of the centre
\* of the ball.
C14_AiTarget ==
    [][/\ PlayTick => aiState'.frameCounter = aiState.frameCounter + 1
       /\ aiState'.targetY # aiState.targetY /\ ~Restarted => AiRecomputes
       /\ AiRecomputes =>
            Abs(aiState'.targetY - (gameState.ballY + Px(BALL_SIZE) \div 2)) <= Px(15)]_vars

\* the 80th pass has put the target 15 px above the centre of a ball that
\* was at y = 296 and is approaching
C14_Witness ==
    /\ handler = "gameLoop"
    /\ aiState.frameCounter = 80
    /\ gameState.ballVelX > 0
    /\ gameState.ballY = Px(297)
    /\ aiState.targetY = Px(286)

\* an executed pass of updateGame that finds a paddle blinking
BlinkPass ==
    frames' = frames + 1 /\ gameState.isRunning /\ animState.blinkingPaddle # "null"

\* the passes of a blink pause that have been executed, counted by the timer
BlinkPassesDone == animState.blinkTimer \div BlinkStepMs

BlinkPasses == BlinkTotalMs \div BlinkStepMs

\* C15: a miss that does not end the match starts a blink pause with no pass
\* counted; each executed pass of the pause counts one; while a paddle blinks
\* the ball has velocity (0, 0) and the passes 1..124 leave its position as it
\* is; the 125th pass, and no other, clears blinkingPaddle, puts the ball at
\* (400, 300) with prevBallX = 400 and multiplier 1.0 and gives it a
\* horizontal velocity, so that the next pass is a normal one.
C15_BlinkPause ==
    /\ [](animState.blinkingPaddle # "null" =>
            /\ gameState.ballVelX = 0 /\ gameState.ballVelY = 0
            /\ animState.blinkTimer % BlinkStepMs = 0
            /\ BlinkPassesDone \in 0..(BlinkPasses - 1))
    /\ [][/\ animState.blinkingPaddle = "null" /\ animState'.blinkingPaddle # "null" =>
               /\ LeftMissed \/ RightMissed
               /\ animState'.blinkTimer = 0
          /\ BlinkPass /\ BlinkPassesDone < BlinkPasses - 1 =>
               /\ animState'.blinkingPaddle = animState.blinkingPaddle
               /\ animState'.blinkTimer = animState.blinkTimer + BlinkStepMs
               /\ gameState' = gameState
          /\ BlinkPass /\ BlinkPassesDone = BlinkPasses - 1 =>
               /\ animState'.blinkingPaddle = "null"
               /\ gameState'.ballX = Px(400) /\ gameState'.ballY = Px(300)
               /\ gameState'.prevBallX = Px(400)
               /\ gameState'.currentSpeedMultiplier = 1000
               /\ gameState'.ballVelX # 0
               /\ gameState'.isRunning
          /\ animState.blinkingPaddle # "null" /\ ~BlinkPass /\ ~Restarted =>
               animState' = animState /\ gameState'.ballX = gameState.ballX
                                      /\ gameState'.ballY = gameState.ballY]_vars

\* the 125th pass of a blink pause has served the ball from the centre
C15_Witness ==
    /\ handler = "gameLoop" /\ "score" \in sounds
    /\ animState.blinkingPaddle = "null"
    /\ gameState.ballX = Px(400) /\ gameState.ballY = Px(300)
    /\ gameState.prevBallX = Px(400)
    /\ gameState.currentSpeedMultiplier = 1000
    /\ gameState.isRunning

\* C16: the serve that ends a blink pause has a horizontal velocity of
\* magnitude 5 whose sign depends on the side that missed: the serve after a
\* miss of the left paddle and the serve after a miss of the right paddle have
\* opposite signs.
C16_ServeDirection ==
    /\ \A side \in {"left", "right"} :
         serves[side] # 0 => Abs(serves[side]) = Px(BASE_BALL_SPEED)
    /\ serves.left # 0 /\ serves.right # 0 =>
         (serves.left > 0) # (serves.right > 0)

\* C17: startGame while gameOver reinitialises the match and returns to the
\* running state: healths 100, ball at (400, 300) with velocity (5, 3), both
\* paddles at y = 250, multiplier 1.0, the grid all 1.0 with 5 hits remaining
\* and edge counters {0, 0}, no bullets and no items, ammo 8, no blink, the AI
\* state reset, gameOver false, winner null, isRunning true and a pass of the
\* game loop scheduled.
C17_Restart ==
    [][Restarted =>
         /\ gameState'.leftHealth = InitialHealth /\ gameState'.rightHealth = InitialHealth
         /\ leftHealth' = InitialHealth /\ rightHealth' = InitialHealth
         /\ gameState'.ballX = Px(400) /\ gameState'.ballY = Px(300)
         /\ gameState'.prevBallX = Px(400)
         /\ gameState'.ballVelX = Px(5) /\ gameState'.ballVelY = Px(3)
         /\ gameState'.leftPaddleY = Px(250) /\ gameState'.rightPaddleY = Px(250)
         /\ gameState'.currentSpeedMultiplier = 1000
         /\ \A r \in DOMAIN cpuPaddlePixels' : \A c \in DOMAIN cpuPaddlePixels'[r] :
              cpuPaddlePixels'[r][c] = 1
         /\ cpuPaddleHealth' = 5
         /\ cpuPaddleEdges' = [topPixelsRemoved |-> 0, bottomPixelsRemoved |-> 0]
         /\ bullets' = << >> /\ items' = << >>
         /\ remainingBullets' = 8
         /\ animState' = [blinkingPaddle |-> "null", blinkTimer |-> 0,
                          blinkCycleTimer |-> 0, isBlinkVisible |-> TRUE]
         /\ aiState' = [targetY |-> Px(250), lastBallDirection |-> 0, frameCounter |-> 0]
         /\ ~gameOver' /\ winner' = "null"
         /\ isRunning' /\ gameState'.isRunning
         /\ gameLoopRef' \in pendingFrames']_vars

\* a match that ended with the player at 0 has been started again
C17_Witness ==
    /\ handler \in {"keyEnter", "clickStoryMode", "clickScreen"}
    /\ "gameStart" \in sounds
    /\ ~gameOver /\ frames >= 1
    /\ gameState.isRunning
    /\ gameState.leftHealth = InitialHealth /\ gameState.ballX = Px(400)
    /\ aiState.frameCounter = 0

\* everything of the match but the running flag
PausedState ==
    <<[gameState EXCEPT !.isRunning = FALSE], aiState, animState, cpuPaddlePixels,
      cpuPaddleHealth, cpuPaddleEdges, bullets, items, lastItemSpawn, remainingBullets,
      leftHealth, rightHealth, gameOver, winner>>

\* C18: pauseGame clears the running flag, cancels the scheduled pass and
\* changes nothing else; while the match is stopped no step changes the match
\* (no pass of updateGame runs), short of the restart after a game over;
\* startGame on a stopped match that is not over sets the running flag,
\* schedules a pass and changes nothing else. So ball, paddles, healths,
\* multiplier, grid, bullets, ammo and blink timers after pause and resume are
\* those of before the pause.
C18_PauseResume ==
    [][/\ handler' = "keyEnter" /\ isRunning =>
            /\ ~isRunning' /\ ~gameState'.isRunning
            /\ PausedState' = PausedState
            /\ gameLoopRef \notin pendingFrames'
            /\ pendingFrames' \subseteq pendingFrames
       /\ ~gameState.isRunning /\ ~Restarted => PausedState' = PausedState
       /\ ~gameState.isRunning /\ gameState'.isRunning /\ ~gameOver =>
            /\ handler' \in {"keyEnter", "clickStoryMode"}
            /\ isRunning'
            /\ pendingFrames' = pendingFrames \cup {gameLoopRef'}
            /\ gameLoopRef' \notin pendingFrames]_vars

\* a match paused and resumed during a blink pause is in the same blink, with
\* the time it had accumulated
C18_Witness ==
    /\ handler = "keyEnter" /\ events = 2 /\ frames = 1
    /\ isRunning /\ gameState.isRunning
    /\ animState.blinkingPaddle = "left"
    /\ animState.blinkTimer = 124 * BlinkStepMs
    /\ gameState.ballX < 0
    /\ gameLoopRef \in pendingFrames

\* the moved ball is level with a row of the grid whose cells are all solid
BallLevelWithSolidRow ==
    \E y \in 0..(PADDLE_HEIGHT - 1) :
        /\ \A x \in 0..(PADDLE_WIDTH - 1) : cpuPaddlePixels'[x][y] > 0
        /\ gameState'.ballY < gameState'.rightPaddleY + Px(y + 1)
        /\ gameState'.ballY + Px(BALL_SIZE) > gameState'.rightPaddleY + Px(y)

\* C19: a pass in which the ball goes from entirely left of the right
\* paddle's face (ballX + 10 <= 790 before) to past it (ballX + 10 > 790 after
\* the move), level with a solid row of the grid, inverts ballVelX, whatever
\* the speed multiplier; and a pass in which the ball crosses the left paddle's
\* face within the paddle's span inverts ballVelX however far the ball
\* travelled.
C19_NoTunneling ==
    [][/\ /\ PlayTick
          /\ gameState.ballX + Px(BALL_SIZE) <= Px(CANVAS_WIDTH - PADDLE_WIDTH)
          /\ NextBallX + Px(BALL_SIZE) > Px(CANVAS_WIDTH - PADDLE_WIDTH)
          /\ BallLevelWithSolidRow
          => gameState'.ballVelX = 0 - gameState.ballVelX
       /\ PlayTick /\ ReachesLeftPaddle
          => gameState'.ballVelX = 0 - gameState.ballVelX]_vars

\* the ball is between the left and the right edge of the canvas
InCanvasX == 0 <= gameState.ballX /\ gameState.ballX <= Px(CANVAS_WIDTH)

\* the ball is between the top wall and the bottom wall
InCanvasY == 0 <= gameState.ballY /\ gameState.ballY <= Px(CANVAS_HEIGHT - BALL_SIZE)

\* an executed pass of updateGame
ExecutedTick == frames' = frames + 1 /\ gameState.isRunning

\* C20 as stated: every executed pass ends with 0 <= ballX <= 800 and
\* 0 <= ballY <= 590, except the pass in which the ball leaves horizontally
\* and a miss is scored; the ball is never outside at the end of two
\* consecutive passes.
C20_BallInCanvas ==
    [][ExecutedTick =>
         \/ InCanvasX' /\ InCanvasY'
         \/ /\ LeftMissed \/ RightMissed
            /\ InCanvasX /\ InCanvasY
            /\ InCanvasY']_vars

\* C20, amended: a normal pass ends with 0 <= ballX <= 800 unless it scores
\* a miss; a ball outside these bounds means a blink pause or a finished
\* match, and it stays where it left until the pass that ends the pause
\* re-centres it; the walls only reflect the ball, so a pass can end with
\* ballY outside 0..590, and every normal pass that ends with ballY <= 0 or
\* ballY >= 590 has bounced the ball off the wall.
C20_BallBounds ==
    /\ [](~InCanvasX => animState.blinkingPaddle # "null" \/ gameOver)
    /\ [][/\ PlayTick /\ ~InCanvasX' => LeftMissed \/ RightMissed
          /\ ~InCanvasX /\ ~InCanvasX' =>
               gameState'.ballX = gameState.ballX /\ gameState'.ballY = gameState.ballY
          /\ ~InCanvasX /\ InCanvasX' =>
               /\ Restarted \/ (BlinkPass /\ BlinkPassesDone = BlinkPasses - 1)
               /\ gameState'.ballX = Px(400) /\ gameState'.ballY = Px(300)
          /\ /\ PlayTick
             /\ gameState'.ballY <= 0 \/ gameState'.ballY >= Px(CANVAS_HEIGHT - BALL_SIZE)
             => "wallBounce" \in sounds'
          /\ PlayTick =>
               gameState'.ballY = gameState.ballY
                  + MulFix(gameState.ballVelY, gameState.currentSpeedMultiplier)]_vars

\* a pass has ended with the ball above the top wall, reflected
C20_Witness ==
    /\ handler = "gameLoop"
    /\ gameState.ballY < 0
    /\ "wallBounce" \in sounds
    /\ gameState.ballVelY > 0
    /\ InCanvasX

\* the centre of the right paddle before the pass
PaddleCenterY == gameState.rightPaddleY + Px(PADDLE_HEIGHT) \div 2

\* the height the AI steers toward in the pass
SteeredTarget ==
    IF gameState.ballVelX > 0 THEN aiState'.targetY
    ELSE Px(CANVAS_HEIGHT) \div 2 - Px(PADDLE_HEIGHT) \div 2

\* C21: 0 <= rightPaddleY <= 500 in every state; a pass leaves the right
\* paddle where it is when the target is within 5 px of the paddle's centre
\* and otherwise moves it by exactly 6.8 px toward the target.
C21_AiPaddleClamped ==
    /\ [](0 <= gameState.rightPaddleY
            /\ gameState.rightPaddleY <= Px(CANVAS_HEIGHT - PADDLE_HEIGHT))
    /\ [][PlayTick =>
            IF Abs(SteeredTarget - PaddleCenterY) <= Px(5)
            THEN gameState'.rightPaddleY = gameState.rightPaddleY
            ELSE IF SteeredTarget > PaddleCenterY
                 THEN gameState'.rightPaddleY = gameState.rightPaddleY + 6800
                 ELSE gameState'.rightPaddleY = gameState.rightPaddleY - 6800]_vars

\* the centre of the right paddle after the pass
PaddleCenterAfter == gameState'.rightPaddleY + Px(PADDLE_HEIGHT) \div 2

\* C22: in a running pass with the ball moving away from the AI
\* (ballVelX <= 0) the AI steers the centre of its paddle toward the vertical
\* centre of the canvas, y = 300: a centre within 5 px of 300 stays where it
\* is, and any other centre does not move away from 300.
C22_ReadyStance ==
    [][PlayTick /\ gameState.ballVelX <= 0 =>
         /\ Abs(PaddleCenterY - Px(300)) <= Px(5) =>
              gameState'.rightPaddleY = gameState.rightPaddleY
         /\ Abs(PaddleCenterAfter - Px(300)) <= Abs(PaddleCenterY - Px(300))]_vars

\* the callback that the step of the game loop runs
RunningCallback == SetMin(IF frameQueue = {} THEN pendingFrames ELSE frameQueue)

\* C23: a callback of the game loop that was requested before the last call
\* of pauseGame or of the restart branch of startGame never executes
\* updateGame.
C23_NoStaleTick ==
    [][ExecutedTick => RunningCallback >= stopMark]_vars

\* C26: after a pass in which a paddle, left or right, has returned the ball,
\* ballVelY lies in [-4, 4].
C26_SpinRange ==
    [][PlayTick /\ "paddleHit" \in sounds' =>
         /\ 0 - Px(4) <= gameState'.ballVelY
         /\ gameState'.ballVelY <= Px(4)]_vars

\* the pass takes the blink clock to a multiple of 200 ms or past one
ReachesCycleMark ==
    (animState.blinkTimer + BlinkStepMs) \div BlinkCycleMs
        > animState.blinkTimer \div BlinkCycleMs

CyclePasses == (BlinkCycleMs + BlinkStepMs - 1) \div BlinkStepMs

Spawns == handler' = "gameLoop" /\ "itemSpawned" \in sounds'

\* C28: an item is spawned only by a running pass at which more than
\* 12000 ms have passed since the previous spawn, the spawns before a restart
\* included (a first spawn has no previous one); and a running, non-blinking
\* pass at which more than 15000 ms have passed since the previous spawn
\* spawns an item.
C28_SpawnTiming ==
    [][/\ Len(items') > Len(items) => Spawns
       /\ Spawns =>
            /\ PlayTick
            /\ Len(items') <= Len(items) + 1
            /\ spawnedAt # 0 => now' - spawnedAt > 12000
       /\ PlayTick /\ now' - spawnedAt > 15000 => Spawns]_vars

\* some cell that the moved ball's box overlaps is solid in the grid that the
\* pass starts with
BallOnSolidCellBefore ==
    \E c \in GridCells :
        /\ EnsurePixels(cpuPaddlePixels)[c[1]][c[2]] > 0
        /\ NextBallX < Px(CANVAS_WIDTH - PADDLE_WIDTH + c[1] + 1)
        /\ NextBallX + Px(BALL_SIZE) > Px(CANVAS_WIDTH - PADDLE_WIDTH + c[1])
        /\ gameState'.ballY < gameState'.rightPaddleY + Px(c[2] + 1)
        /\ gameState'.ballY + Px(BALL_SIZE) > gameState'.rightPaddleY + Px(c[2])

\* a bullet of the pass has eroded the grid
Eroded == cpuPaddleHealth' < cpuPaddleHealth

\* C29 as stated: the ball's move and paddle collision of a pass come before
\* the bullets and the erosion of that pass, so the ball that reaches the right
\* paddle bounces exactly when it overlaps a cell that is solid in the grid the
\* pass starts with.
C29_PhysicsBeforeBullets ==
    [][PlayTick /\ ReachesRightPaddle => (RightBounced <=> BallOnSolidCellBefore)]_vars

\* C29, amended: the bullets and the erosion of a pass come before the AI's
\* move and the ball's move and paddle collision of that pass: a bullet erodes
\* the grid only if it overlaps a solid cell at the paddle position the pass
\* starts with, and in a pass with an erosion the ball that reaches the right
\* paddle bounces exactly when it overlaps a cell that is still solid after
\* that erosion.
C29_BulletsBeforePhysics ==
    [][PlayTick /\ Eroded =>
         /\ \E i \in DOMAIN bullets : HitsSolidCell(bullets[i])
         /\ ReachesRightPaddle => (RightBounced <=> BallOnSolidCell)]_vars

\* the ball has flown into the top rows of the paddle in the pass in which a
\* bullet destroyed them
C29_Witness ==
    /\ handler = "gameLoop"
    /\ "bulletImpact" \in sounds /\ "paddleHit" \notin sounds
    /\ cpuPaddleHealth = InitialPaddleHealth - 1
    /\ gameState.ballX = Px(785) /\ gameState.ballVelX > 0
    /\ gameState.ballY + Px(BALL_SIZE) > gameState.rightPaddleY
    /\ gameState.ballY + Px(BALL_SIZE) <= gameState.rightPaddleY + Px(10)

\* the canvas element is rendered by the game screen only (lines 1586-1643):
\* on every other screen canvasRef.current is null
CanvasMounted == currentScreen = "game"

\* C30: an animation frame callback that finds no canvas changes neither the
\* ball, the paddles, the healths, the grid, the bullets, the items nor the
\* state of the match.
C30_NoCanvasNoOp ==
    [][frames' = frames + 1 /\ ~CanvasMounted =>
         UNCHANGED <<gameState, animState, cpuPaddlePixels, cpuPaddleHealth,
                     cpuPaddleEdges, bullets, items, leftHealth, rightHealth,
                     isRunning, gameOver, winner>>]_vars

\* a pass of the platformer's loop has run
PlatformerTick == handler' = "platformerLoop" /\ platformerFrames' = platformerFrames + 1

\* the pass starts on the ground with the jump key held
JumpStarts == " " \in platformer.keys /\ platformer.grounded

\* the character stands on top of a platform
OnPlatform(c) ==
    \E i \in DOMAIN Platforms :
        /\ c.y + Px(CharacterHeight) = Platforms[i].y
        /\ c.x + Px(CharacterWidth) > Platforms[i].x
        /\ c.x < Platforms[i].x + Platforms[i].width

\* C24: a pass sets velocityY to -6 only if it starts grounded with the jump
\* key held; every pass then adds exactly 0.3 to velocityY, and only a landing
\* on a platform sets it to 0; between passes velocityY and grounded change
\* only when the screen is left or a fresh instance replaces the rendered one.
C24_JumpGated ==
    [][IF PlatformerTick
       THEN LET base == IF JumpStarts THEN 0 - JumpSpeed ELSE platformer.velocityY
            IN  /\ platformer'.grounded =>
                     platformer'.velocityY = 0 /\ OnPlatform(platformer')
                /\ ~platformer'.grounded => platformer'.velocityY = base + Gravity
                /\ platformer'.grounded => base + Gravity >= 0
                /\ ~platformer.grounded /\ ~platformer'.grounded =>
                     platformer'.velocityY = platformer.velocityY + Gravity
       ELSE \/ /\ platformer'.velocityY = platformer.velocityY
               /\ platformer'.grounded = platformer.grounded
            \/ platformer' \in {MountPlatformer, NoPlatformer}]_vars

\* the character rises with the jump key held: the pass has not jumped again
C24_Witness ==
    /\ handler = "platformerLoop" /\ platformerFrames > 0
    /\ " " \in platformer.keys
    /\ ~platformer.grounded
    /\ platformer.velocityY = Gravity * 4 - JumpSpeed

\* the character is more than the buffer below the camera's bottom edge
BelowDeathLine(c) == c.y > CameraY + Px(ScreenHeight) + Px(DeathBuffer)

\* the character is back at its initial pose and the loop runs
InitialPose(c) ==
    /\ c.mounted /\ ~c.gameOver /\ c.loop
    /\ c.x = Px(CharacterStartX) /\ c.y = Px(CharacterStartY)
    /\ c.velocityX = 0 /\ c.velocityY = 0

\* C25: a pass that ends with the character below the death line sets
\* gameOver and requests no further frame; once gameOver is set no pass of the
\* platformer runs until R is pressed (or the screen is left), and R resumes
\* the loop with the character at its initial pose.
C25_FallDeath ==
    [][/\ PlatformerTick =>
            /\ ~platformer.gameOver
            /\ platformer'.gameOver = BelowDeathLine(platformer')
            /\ platformer'.gameOver => ~platformer'.loop
       /\ handler' = "keyR" => platformer.gameOver /\ InitialPose(platformer')
       /\ platformer.gameOver =>
            \/ handler' = "keyR"
            \/ ~platformer'.mounted
            \/ platformer'.gameOver /\ ~platformer'.loop]_vars

\* a callback that hides the no-ammo message is still to come
HidePending(list, t) ==
    \E j \in DOMAIN list : list[j].fn = "hideNoBullets" /\ list[j].due > t

\* C31: a restart abandons every pending delayed callback, so none of them
\* runs after it; and the timer that hides the no-ammo message is the timer of
\* the empty shot that showed it last, no timer of a later empty shot being
\* still to come.
C31_TimersAbandoned ==
    [][/\ Restarted => timeouts' = << >>
       /\ handler' = "timeout" /\ noBulletsMessage /\ ~noBulletsMessage' =>
            ~HidePending(timeouts', now)]_vars

\* the ball has no velocity
BallFrozen == gameState.ballVelX = 0 /\ gameState.ballVelY = 0

\* C32: a paddle blinks exactly when the ball is frozen, and while none blinks
\* |ballVelX| = 5; a pass that finds a paddle blinking leaves the ball where it
\* is, or puts it back to the centre when it ends the pause, and a pass that
\* finds none blinking advances no blink timer.
C32_BlinkOrRunning ==
    /\ [](/\ (animState.blinkingPaddle # "null") = BallFrozen
          /\ animState.blinkingPaddle = "null" =>
               Abs(gameState.ballVelX) = Px(BASE_BALL_SPEED))
    /\ [][/\ BlinkPass =>
               \/ /\ gameState'.ballX = gameState.ballX
                  /\ gameState'.ballY = gameState.ballY
                  /\ animState'.blinkingPaddle = animState.blinkingPaddle
                  /\ animState'.blinkTimer = animState.blinkTimer + BlinkStepMs
               \/ /\ animState'.blinkingPaddle = "null"
                  /\ gameState'.ballX = Px(CANVAS_WIDTH) \div 2
                  /\ gameState'.ballY = Px(CANVAS_HEIGHT) \div 2
          /\ PlayTick =>
               /\ animState'.blinkTimer = 0
               /\ animState'.blinkCycleTimer = 0
               /\ gameState'.prevBallX = gameState.ballX]_vars

\* the pass of a miss has frozen the ball and started the pause, no pass of
\* the pause counted yet
C32_Witness ==
    /\ handler = "gameLoop" /\ "healthLoss" \in sounds
    /\ animState.blinkingPaddle # "null"
    /\ animState.blinkTimer = 0
    /\ BallFrozen

\* C33: a pass that finds a paddle blinking changes the blink state and, when
\* it ends the pause, the ball; the paddles, the bullets (also those fired
\* during the pause), the items, the grid, the ammo, the healths and the AI
\* state are as before the pass.
C33_BlinkPassFrame ==
    [][BlinkPass =>
         /\ gameState'.leftPaddleY = gameState.leftPaddleY
         /\ gameState'.rightPaddleY = gameState.rightPaddleY
         /\ gameState'.leftHealth = gameState.leftHealth
         /\ gameState'.rightHealth = gameState.rightHealth
         /\ gameState'.isRunning
         /\ animState'.blinkingPaddle # "null" =>
              gameState' = gameState /\ animState' # animState
         /\ UNCHANGED <<aiState, bullets, items, lastItemSpawn, cpuPaddlePixels,
                        cpuPaddleHealth, cpuPaddleEdges, remainingBullets,
                        leftHealth, rightHealth, isRunning, gameOver, winner>>]_vars

\* a bullet fired during the pause is where it was fired, passes later
C33_Witness ==
    /\ handler = "gameLoop" /\ frames > 1
    /\ animState.blinkingPaddle # "null"
    /\ Len(bullets) > 0
    /\ bullets[Len(bullets)].x = Px(PADDLE_WIDTH + 2)
    /\ lastShotTime < now

\* the bullets that a pass takes out of the list for hitting the paddle: the
\* moved bullets still on the canvas that are missing from the list afterwards
RemovedByHit == Len(KeepBullets(bullets, 1, FALSE)) - Len(bullets')

\* the grid is initialized: every cell solid, no edge rows removed
GridInitialized ==
    /\ cpuPaddlePixels = initializeCpuPaddle
    /\ cpuPaddleEdges = InitialEdges

\* C34: the hit counter of the CPU paddle is always 5 minus the number of
\* bullets removed by paddle hits since the grid was last initialized: a pass
\* counts exactly as many hits as it removes bullets at the paddle (also with
\* several bullets at the paddle in one pass), every bullet that is on the
\* canvas and does not hit stays in the list, and no other step changes the
\* count except a re-initialization of the grid, which sets it back to 0.
C34_HitsCounted ==
    /\ [](/\ cpuPaddleHealth = InitialPaddleHealth - hits
          /\ cpuPaddleHealth >= 0
          /\ hits = 0 => GridInitialized)
    /\ [][/\ PlayTick =>
               /\ hits' - hits = RemovedByHit
               /\ cpuPaddleHealth - cpuPaddleHealth' = RemovedByHit
               /\ RemovedByHit \in 0..cpuPaddleHealth
               /\ \A j \in DOMAIN bullets' :
                    \E i \in DOMAIN bullets : bullets'[j] = MovedBullet(bullets[i])
          /\ ~PlayTick =>
               \/ hits' = hits /\ cpuPaddleHealth' = cpuPaddleHealth
               \/ hits' = 0 /\ GridInitialized']_vars

\* one pass has just removed two bullets at the paddle: both damage sounds
\* are scheduled for the same instant
C34_Witness ==
    /\ handler = "gameLoop" /\ "bulletImpact" \in sounds
    /\ cpuPaddleHealth = InitialPaddleHealth - hits
    /\ \E i, j \in DOMAIN timeouts :
         /\ i < j
         /\ timeouts[i] = [fn |-> "paddleDamaged", due |-> now + 100]
         /\ timeouts[j] = timeouts[i]

\* the callbacks of the game loop that the browser still has to run
ScheduledCallbacks == pendingFrames \cup frameQueue

\* C35: at most one callback of the game loop is scheduled at any time and at
\* most one simulation pass runs per animation frame, for every sequence of
\* Enter, Escape and STORY MODE clicks: no step takes a match with at most one
\* scheduled callback to a state with two, and a pass that executes updateGame
\* is the first callback of its frame.
C35_SingleLoop ==
    [][Cardinality(ScheduledCallbacks) <= 1 =>
         /\ Cardinality(ScheduledCallbacks') <= 1
         /\ ExecutedTick => frameQueue = {}]_vars

\* a key event or a callback of the game loop has been handled
KeyOrTick ==
    handler' \in {"keyEnter", "keyEscape", "keySpace", "keyMove", "keyUp", "keyR", "gameLoop"}

\* C36: while the current screen is not the game screen, no key event and no
\* callback of the game loop changes the running flag, the ball, the paddles,
\* the healths, the bullets or the ammunition of the Pong match; in
\* particular a match left with Escape does not advance.
C36_MatchIsolated ==
    [][currentScreen # "game" /\ KeyOrTick =>
         UNCHANGED <<gameState, isRunning, leftHealth, rightHealth, cpuPaddleHealth,
                     bullets, remainingBullets>>]_vars

\* C37: the item list never holds more than one item: every item in the list
\* was spawned at the time of the last spawn, and a pass that spawns an item
\* leaves no older item in the list, also when the pass comes after a long
\* gap in which no expiry was processed.
C37_OneItem ==
    /\ [](/\ Len(items) <= 1
          /\ \A i \in DOMAIN items : items[i].spawnTime = lastItemSpawn)
    /\ [][Spawns => \A i \in DOMAIN items' : items'[i].spawnTime = now']_vars

\* the first pass after two seconds without a frame has found the item of
\* the snapshot, then 9990 ms old, 12006 ms old: it has spawned a new item and
\* the list holds the new item alone
C37_Witness ==
    /\ handler = "gameLoop" /\ frames = 1
    /\ "itemSpawned" \in sounds
    /\ now = StartTime + FrameMs + 12006
    /\ Len(items) = 1
    /\ items[1].spawnTime = now

\* C38: the player's paddle stays fully inside the canvas: in every reachable
\* state 0 <= leftPaddleY <= 500, whatever keys are held.
C38_LeftPaddleInside ==
    /\ gameState.leftPaddleY >= 0
    /\ gameState.leftPaddleY <= Px(CANVAS_HEIGHT - PADDLE_HEIGHT)

\* the grid of the CPU paddle is fully eroded
FullyEroded == cpuPaddleHealth = 0

\* the pass ends the blink pause and serves the ball
Serves == BlinkPass /\ animState'.blinkingPaddle = "null"

\* C39: once the grid of the CPU paddle is fully eroded the match reaches
\* game over, provided the callbacks of the game loop keep running; and from
\* then on every serve sends the ball toward the CPU and a ball that flies
\* toward the CPU keeps its direction until it leaves the field on the CPU's
\* side, which costs the CPU 10 health and the player none.
C39_ErodedMatchEnds ==
    /\ FullyEroded ~> gameOver
    /\ [][FullyEroded =>
            /\ Serves => gameState'.ballVelX = Px(BASE_BALL_SPEED)
            /\ PlayTick /\ gameState.ballVelX > 0 =>
                 \/ /\ gameState'.ballVelX = gameState.ballVelX
                    /\ gameState'.ballX <= Px(CANVAS_WIDTH)
                    /\ UNCHANGED <<leftHealth, rightHealth>>
                 \/ /\ RightMissed
                    /\ rightHealth' = rightHealth - HealthStep
                    /\ leftHealth' = leftHealth]_vars

\* the match has ended with the CPU at health 0 after a serve to the eroded
\* paddle
C39_Witness ==
    /\ gameOver /\ winner = "PLAYER"
    /\ FullyEroded
    /\ rightHealth = 0
    /\ serves.right = Px(BASE_BALL_SPEED)
    /\ gameState.currentSpeedMultiplier = 1000

\* C40: in the platformer the character is never left of the left wall: at
\* the end of every pass of the loop character.x >= -130, whatever keys are
\* held and wherever on the platform the character walks, runs, jumps or
\* lands.
C40_RightOfLeftWall ==
    platformer.mounted => platformer.x >= LeftWallX

====
